---- MODULE Spec2Model ----
(***************************************************************************)
(* Model of the interactive CSS class renamer                              *)
(* (src/spa/css-audit/scripts/rename_css_classes.py): the reference        *)
(* scanner find_class_references, the per-file rewrite process_file and    *)
(* the driver main.  File contents are strings; offsets are the 0-based,   *)
(* end-exclusive offsets of Python.                                        *)
(***************************************************************************)
EXTENDS Integers, Sequences, FiniteSets, TLC

(***************************************************************************)
(* Strings                                                                 *)
(***************************************************************************)

\* Python's s[a:b] for 0 <= a, clipped at the end of s like a Python slice.
Slice(s, a, b) ==
    LET hi == IF b > Len(s) THEN Len(s) ELSE b
    IN  IF a >= hi THEN "" ELSE SubSeq(s, a + 1, hi)

\* str.startswith
StartsWith(s, lit) == Slice(s, 0, Len(lit)) = lit

\* The characters of s, one string of length one each.  The scanner works
\* on this sequence; offset i of the text is element i + 1.
Chars(s) == [k \in 1 .. Len(s) |-> SubSeq(s, k, k)]

\* The character at 0-based offset i, "" outside the text.
CharAt(cs, i) == IF i < 0 \/ i >= Len(cs) THEN "" ELSE cs[i + 1]

\* The text from offset i on starts with the literal lit.
StartsAt(cs, i, lit) ==
    /\ i + Len(lit) <= Len(cs)
    /\ \A k \in 1 .. Len(lit) : cs[i + k] = lit[k]

\* \s of the re module, on the characters the model uses.
WhiteSpace == {" ", "\t", "\n", "\r", "\f"}

\* The backtick, which a TLA+ string cannot hold, is written "@" in the model's
\* texts; "@" occurs in no other role.
Backtick == "@"

\* The character classes ['"] and ['"@] (quotes, and quotes or a backtick).
Quotes == {"\"", "'"}
QuotesAndBacktick == Quotes \cup {Backtick}

\* \w of the re module (ASCII).
WordChars ==
    {"a", "b", "c", "d", "e", "f", "g", "h", "i", "j", "k", "l", "m", "n",
     "o", "p", "q", "r", "s", "t", "u", "v", "w", "x", "y", "z",
     "A", "B", "C", "D", "E", "F", "G", "H", "I", "J", "K", "L", "M", "N",
     "O", "P", "Q", "R", "S", "T", "U", "V", "W", "X", "Y", "Z",
     "0", "1", "2", "3", "4", "5", "6", "7", "8", "9", "_"}

IsWs(c) == c \in WhiteSpace
IsWord(c) == c \in WordChars

\* \b at offset i: exactly one of the two neighbours is a word character.
WordBoundary(s, i) == IsWord(CharAt(s, i - 1)) # IsWord(CharAt(s, i))

\* \s* from offset i: the offset of the first non-blank character.
RECURSIVE SkipWs(_, _)
SkipWs(s, i) == IF IsWs(CharAt(s, i)) THEN SkipWs(s, i + 1) ELSE i

\* The first offset >= i holding a character of set cs, Len(s) when none.
RECURSIVE FirstOf(_, _, _)
FirstOf(s, i, cs) ==
    IF i >= Len(s) THEN Len(s)
    ELSE IF CharAt(s, i) \in cs THEN i ELSE FirstOf(s, i + 1, cs)

\* The last offset in [i, Len(s)) holding a character of set cs, -1 when none.
RECURSIVE LastOf(_, _, _)
LastOf(s, i, cs) ==
    IF i >= Len(s) THEN -1
    ELSE LET later == LastOf(s, i + 1, cs)
         IN  IF later >= 0 THEN later
             ELSE IF CharAt(s, i) \in cs THEN i ELSE -1

(***************************************************************************)
(* find_class_references: the nine patterns                                *)
(***************************************************************************)

\* ['"\s)] : what may follow the class name of a selector argument.
SelectorEnd == Quotes \cup WhiteSpace \cup {")"}

\* The pattern list of find_class_references, in its order.  Each regular
\* expression is  head \s* (glue \s*)* open body :
\*   heads  the alternatives of the literal head (a group with "(...)?" or
\*          "a|b" is written out as its alternatives),
\*   ws     whether \s* follows the head and each glue literal,
\*   glue   the literals between head and opening quote ("=", "{"),
\*   open   the class of the opening quote,
\*   body   "word":  (?:[^'"]*\s+)?\b(NAME)\b(?:\s+[^'"]*)?  then close,
\*          "token": dot? (NAME) then one character of close,
\*   close  the class of the closing character.
patterns ==
    << [match_type |-> "JSX attribute",
        heads |-> {Chars("class"), Chars("className")},
        ws |-> TRUE, glue |-> <<"=">>,
        open |-> Quotes, body |-> "word", dot |-> FALSE, close |-> Quotes],
       [match_type |-> "JSX expression",
        heads |-> {Chars("class"), Chars("className")},
        ws |-> TRUE, glue |-> <<"=", "{">>,
        open |-> QuotesAndBacktick, body |-> "word", dot |-> FALSE,
        close |-> QuotesAndBacktick],
       [match_type |-> "classList method",
        heads |-> {Chars("classList.add("), Chars("classList.remove("),
                   Chars("classList.toggle("), Chars("classList.contains("),
                   Chars("classList.replace(")},
        ws |-> TRUE, glue |-> <<>>,
        open |-> Quotes, body |-> "word", dot |-> FALSE, close |-> Quotes],
       [match_type |-> "querySelector",
        heads |-> {Chars("querySelector("), Chars("querySelectorAll(")},
        ws |-> TRUE, glue |-> <<>>,
        open |-> Quotes, body |-> "token", dot |-> TRUE, close |-> SelectorEnd],
       [match_type |-> "getElementsByClassName",
        heads |-> {Chars("getElementsByClassName(")}, ws |-> TRUE, glue |-> <<>>,
        open |-> Quotes, body |-> "token", dot |-> FALSE, close |-> Quotes],
       [match_type |-> "class assignment",
        heads |-> {Chars("className"), Chars("cssClass"), Chars("klass"), Chars("cls")},
        ws |-> TRUE, glue |-> <<"=">>,
        open |-> Quotes, body |-> "word", dot |-> FALSE, close |-> Quotes],
       [match_type |-> "matches method",
        heads |-> {Chars("matchesSelector("), Chars("matches("), Chars("closest(")},
        ws |-> TRUE, glue |-> <<>>,
        open |-> Quotes, body |-> "token", dot |-> TRUE, close |-> SelectorEnd],
       [match_type |-> "className property",
        heads |-> {Chars(".className")}, ws |-> TRUE, glue |-> <<"=">>,
        open |-> Quotes, body |-> "word", dot |-> FALSE, close |-> Quotes],
       [match_type |-> "class selector string",
        heads |-> {Chars("")}, ws |-> FALSE, glue |-> <<>>,
        open |-> Quotes, body |-> "token", dot |-> TRUE, close |-> Quotes] >>

NoMatch == [found |-> FALSE, start |-> 0, end |-> 0, mend |-> 0]

\* \s* (when the pattern has it) and then the glue literals from offset i:
\* the offset after them, or -1 when a literal is missing.
RECURSIVE AfterGlue(_, _, _, _)
AfterGlue(s, i, glue, ws) ==
    LET j == IF ws THEN SkipWs(s, i) ELSE i
    IN  IF glue = <<>> THEN j
        ELSE IF CharAt(s, j) = Head(glue)
             THEN AfterGlue(s, j + 1, Tail(glue), ws)
             ELSE -1

\* (?:\s+[^'"]*)? and the closing character, from the offset e after the
\* class name: the offset after the closing character, or -1.  The greedy
\* [^'"]* runs to the first quote; with no quote left it backs off to the
\* last closing character that is not a quote (a backtick of pattern 2).
TailEnd(s, e, close) ==
    LET stop == FirstOf(s, e, Quotes)
        back == LastOf(s, e + 1, close \ Quotes)
    IN  IF IsWs(CharAt(s, e))
        THEN IF stop < Len(s) THEN stop + 1
             ELSE IF back >= 0 THEN back + 1 ELSE -1
        ELSE IF CharAt(s, e) \in close THEN e + 1 ELSE -1

\* The offsets at which the word body can capture name in the value that
\* starts at v: name stands at the start of the value or after a blank,
\* between two \b, before the first quote, and the tail matches.
WordCandidates(s, name, v, close) ==
    LET stop == FirstOf(s, v, Quotes)
    IN  { n \in v .. (stop - Len(name)) :
            /\ StartsAt(s, n, name)
            /\ n = v \/ IsWs(CharAt(s, n - 1))
            /\ WordBoundary(s, n)
            /\ WordBoundary(s, n + Len(name))
            /\ TailEnd(s, n + Len(name), close) >= 0 }

Max(S) == CHOOSE x \in S : \A y \in S : y <= x

\* The word body at value offset v.  The optional group (?:[^'"]*\s+)? is
\* tried first and with the longest [^'"]*, so the capture is the last
\* candidate.
MatchWord(s, name, v, close) ==
    LET cand == WordCandidates(s, name, v, close)
    IN  IF cand = {} THEN NoMatch
        ELSE LET n == Max(cand)
             IN  [found |-> TRUE, start |-> n, end |-> n + Len(name),
                  mend |-> TailEnd(s, n + Len(name), close)]

\* The token body at value offset v: an optional dot, the name, one closing
\* character.
MatchToken(s, name, v, dot, close) ==
    LET n == IF dot THEN v + 1 ELSE v
    IN  IF /\ dot => CharAt(s, v) = "."
           /\ StartsAt(s, n, name)
           /\ CharAt(s, n + Len(name)) \in close
        THEN [found |-> TRUE, start |-> n, end |-> n + Len(name),
              mend |-> n + Len(name) + 1]
        ELSE NoMatch

\* pattern.match at offset i with the head alternative h.
MatchHead(p, s, name, i, h) ==
    IF ~StartsAt(s, i, h) THEN NoMatch
    ELSE LET q == AfterGlue(s, i + Len(h), p.glue, p.ws)
         IN  IF q < 0 \/ CharAt(s, q) \notin p.open THEN NoMatch
             ELSE IF p.body = "word"
                  THEN MatchWord(s, name, q + 1, p.close)
                  ELSE MatchToken(s, name, q + 1, p.dot, p.close)

\* pattern.match at offset i: the match of the head alternative that
\* succeeds (at one offset at most one alternative can).
MatchAt(p, s, name, i) ==
    LET ok == { h \in p.heads : MatchHead(p, s, name, i, h).found }
    IN  IF ok = {} THEN NoMatch
        ELSE MatchHead(p, s, name, i, CHOOSE h \in ok : TRUE)

\* The characters a match of pattern p can start with: the first
\* characters of its heads, or its opening quotes when the head is empty.
FirstChars(p) ==
    IF <<>> \in p.heads THEN p.open ELSE {h[1] : h \in p.heads}

firstChars == [k \in 1 .. Len(patterns) |-> FirstChars(patterns[k])]

\* patterns[k].finditer(content) from offset i: leftmost matches, each
\* search resuming at the end of the previous match; one reference
\* (class_start, class_end, match_type, context) per match, the context
\* kept as its two offsets.
RECURSIVE FindIter(_, _, _, _)
FindIter(k, s, name, i) ==
    IF i >= Len(s) THEN <<>>
    ELSE IF s[i + 1] \notin firstChars[k] THEN FindIter(k, s, name, i + 1)
    ELSE LET m == MatchAt(patterns[k], s, name, i)
         IN  IF m.found
             THEN << [start |-> m.start, end |-> m.end,
                      match_type |-> patterns[k].match_type,
                      context |-> <<i, m.mend>>] >>
                  \o FindIter(k, s, name, m.mend)
             ELSE FindIter(k, s, name, i + 1)

\* The references of patterns k.. in pattern order.
RECURSIVE ReferencesFrom(_, _, _)
ReferencesFrom(s, name, k) ==
    IF k > Len(patterns) THEN <<>>
    ELSE FindIter(k, s, name, 0) \o ReferencesFrom(s, name, k + 1)

\* A reference with its context, match.group(0), cut from the text.
WithContext(content, refs) ==
    [k \in 1 .. Len(refs) |->
        [refs[k] EXCEPT !.context = Slice(content, refs[k].context[1],
                                          refs[k].context[2])]]

find_class_references(content, class_name) ==
    WithContext(content,
                ReferencesFrom(Chars(content), Chars(class_name), 1))

(***************************************************************************)
(* Ordering of the queued edits: all_changes.sort(reverse=True)            *)
(***************************************************************************)

\* The printable characters in code-point order (the backtick's stand-in at
\* the backtick's place).
CodeOrder ==
    " !\"#$%&'()*+,-./0123456789:;<=>?ABCDEFGHIJKLMNOPQRSTUVWXYZ[]^_@abcdefghijklmnopqrstuvwxyz{|}~"

\* The rank of character c in CodeOrder, 0 for the empty string.
Ord(c) ==
    IF c = "" THEN 0
    ELSE CHOOSE k \in 1 .. Len(CodeOrder) : SubSeq(CodeOrder, k, k) = c

\* Python's a < b on strings: the first differing character decides, a
\* proper prefix is smaller.
RECURSIVE CharsLess(_, _)
CharsLess(a, b) ==
    IF b = <<>> THEN FALSE
    ELSE IF a = <<>> THEN TRUE
    ELSE IF Head(a) # Head(b) THEN Ord(Head(a)) < Ord(Head(b))
    ELSE CharsLess(Tail(a), Tail(b))

StrLess(a, b) == CharsLess(Chars(a), Chars(b))

\* Python's x < y on the tuples (start, end, replacement).
ChangeLess(x, y) ==
    \/ x.start < y.start
    \/ x.start = y.start /\ x.end < y.end
    \/ x.start = y.start /\ x.end = y.end /\ StrLess(x.new, y.new)

\* x put into the descending sequence sorted, behind the elements that are
\* not smaller than it (the sort is stable).
RECURSIVE InsertDescending(_, _)
InsertDescending(sorted, x) ==
    IF sorted = <<>> THEN <<x>>
    ELSE IF ChangeLess(Head(sorted), x) THEN <<x>> \o sorted
    ELSE <<Head(sorted)>> \o InsertDescending(Tail(sorted), x)

\* The edits left in the order they were queued.
SortMissing(changes) == changes

\* all_changes.sort(reverse=True)
RECURSIVE SortReverse(_)
SortReverse(changes) ==
    IF changes = <<>> THEN <<>>
    ELSE InsertDescending(SortReverse(SubSeq(changes, 1, Len(changes) - 1)),
                          changes[Len(changes)])

\* content[:start] + replacement + content[end:]
SpliceOne(content, change) ==
    Slice(content, 0, change.start) \o change.new
        \o Slice(content, change.end, Len(content))

(***************************************************************************)
(* Regular expressions of css_audit.py                                     *)
(*                                                                         *)
(* A pattern is a sequence of nodes; Match tries them in the order of the  *)
(* re module (a greedy repetition takes one more round before it stops, a  *)
(* lazy one stops before it takes one more, alternatives from the left)    *)
(* and yields the first way the whole sequence matches.                    *)
(***************************************************************************)

Lit(str) == [t |-> "lit", cs |-> Chars(str)]
In(set) == [t |-> "in", set |-> set]
NotIn(set) == [t |-> "notin", set |-> set]
Alt(alts) == [t |-> "alt", alts |-> alts]
Rep(x, min, greedy) == [t |-> "rep", x |-> x, min |-> min, greedy |-> greedy]
Open == [t |-> "open"]
Close == [t |-> "close"]
AtEnd == [t |-> "end"]

\* x* x+ x? and x*? for a sequence of nodes x; . with and without re.DOTALL.
Star(x) == Rep(x, 0, TRUE)
Plus(x) == Rep(x, 1, TRUE)
Opt(x) == Alt(<<x, <<>>>>)
Lazy(x) == Rep(x, 0, FALSE)
Dot == NotIn({"\n"})
DotAll == NotIn({})

Letters ==
    {"a", "b", "c", "d", "e", "f", "g", "h", "i", "j", "k", "l", "m", "n",
     "o", "p", "q", "r", "s", "t", "u", "v", "w", "x", "y", "z",
     "A", "B", "C", "D", "E", "F", "G", "H", "I", "J", "K", "L", "M", "N",
     "O", "P", "Q", "R", "S", "T", "U", "V", "W", "X", "Y", "Z"}
Digits == {"0", "1", "2", "3", "4", "5", "6", "7", "8", "9"}

NoMatchAt == [ok |-> FALSE, e |-> -1, a |-> -1, b |-> -1]

Min(S) == CHOOSE x \in S : \A y \in S : x <= y

\* The character at offset i is one of the class node n.
InClass(n, cs, i) ==
    /\ i < Len(cs)
    /\ IF n.t = "in" THEN CharAt(cs, i) \in n.set
                     ELSE CharAt(cs, i) \notin n.set

\* The end of the run of characters of class n that starts at offset i.
RunEnd(n, cs, i) ==
    Min({j \in i .. Len(cs) : ~InClass(n, cs, j)})

\* The first match of the nodes ns at offset i of the characters cs: whether
\* there is one, its end e and the span [a, b) of the captured group.
RECURSIVE Match(_, _, _, _, _)
RECURSIVE MatchAlt(_, _, _, _, _, _)
Match(ns, cs, i, a, b) ==
    IF ns = <<>> THEN [ok |-> TRUE, e |-> i, a |-> a, b |-> b]
    ELSE LET n == Head(ns)
             rest == Tail(ns)
         IN  CASE n.t = "lit" ->
                    IF StartsAt(cs, i, n.cs)
                    THEN Match(rest, cs, i + Len(n.cs), a, b)
                    ELSE NoMatchAt
               [] n.t = "in" ->
                    IF CharAt(cs, i) \in n.set
                    THEN Match(rest, cs, i + 1, a, b)
                    ELSE NoMatchAt
               [] n.t = "notin" ->
                    IF i < Len(cs) /\ CharAt(cs, i) \notin n.set
                    THEN Match(rest, cs, i + 1, a, b)
                    ELSE NoMatchAt
               [] n.t = "open" -> Match(rest, cs, i, i, b)
               [] n.t = "close" -> Match(rest, cs, i, a, i)
               [] n.t = "end" ->
                    IF i = Len(cs) THEN Match(rest, cs, i, a, b) ELSE NoMatchAt
               [] n.t = "alt" -> MatchAlt(n.alts, rest, cs, i, a, b)
               [] n.t = "rep" ->
                    IF Len(n.x) = 1 /\ n.x[1].t \in {"in", "notin"}
                    THEN \* a repeated character class: the longest (greedy)
                         \* or the shortest (lazy) run after which the rest
                         \* matches
                         LET run == RunEnd(n.x[1], cs, i)
                             ends == {j \in i + n.min .. run :
                                        Match(rest, cs, j, a, b).ok}
                         IN  IF ends = {} THEN NoMatchAt
                             ELSE Match(rest, cs,
                                        IF n.greedy THEN Max(ends)
                                                    ELSE Min(ends), a, b)
                    ELSE IF n.min > 0
                    THEN Match(n.x \o <<Rep(n.x, n.min - 1, n.greedy)>> \o rest,
                               cs, i, a, b)
                    ELSE MatchAlt(IF n.greedy THEN <<n.x \o <<n>>, <<>>>>
                                              ELSE <<<<>>, n.x \o <<n>>>>,
                                  rest, cs, i, a, b)

MatchAlt(alts, rest, cs, i, a, b) ==
    IF alts = <<>> THEN NoMatchAt
    ELSE LET m == Match(Head(alts) \o rest, cs, i, a, b)
         IN  IF m.ok THEN m ELSE MatchAlt(Tail(alts), rest, cs, i, a, b)

\* re.finditer: the matches from offset i on, from left to right and not
\* overlapping, each with the text of its group ("" when the pattern has
\* none).
RECURSIVE FindAllFrom(_, _, _, _)
FindAllFrom(re, s, cs, i) ==
    LET ms == [j \in i .. Len(cs) |-> Match(re, cs, j, -1, -1)]
        starts == {j \in i .. Len(cs) : ms[j].ok}
    IN  IF starts = {} THEN <<>>
        ELSE \* the leftmost match m, at offset j, and the matches behind it
             LET Found(j, m) ==
                     <<[start |-> j, end |-> m.e,
                        group |-> IF m.a < 0 THEN ""
                                             ELSE Slice(s, m.a, m.b)]>>
                         \o FindAllFrom(re, s, cs,
                                        IF m.e > j THEN m.e ELSE j + 1)
             IN  Found(Min(starts), ms[Min(starts)])

\* re.findall for a pattern with one group: the group of every match.
Groups(ms) == [k \in 1 .. Len(ms) |-> ms[k].group]

FindAll(re, s) == Groups(FindAllFrom(re, s, Chars(s), 0))

\* re.sub(re, '', s): s without the matches.
RECURSIVE Without(_, _, _)
Without(s, ms, i) ==
    IF ms = <<>> THEN Slice(s, i, Len(s))
    ELSE Slice(s, i, Head(ms).start) \o Without(s, Tail(ms), Head(ms).end)

Remove(re, s) == Without(s, FindAllFrom(re, s, Chars(s), 0), 0)

\* set(s.split()): the maximal runs of non-blank characters of s.
Split(s) ==
    LET cs == Chars(s)
    IN  { Slice(s, i, j) : <<i, j>> \in
            { p \in (0 .. Len(s)) \X (0 .. Len(s)) :
                /\ p[1] < p[2]
                /\ \A k \in p[1] .. p[2] - 1 : ~IsWs(CharAt(cs, k))
                /\ (p[1] = 0 \/ IsWs(CharAt(cs, p[1] - 1)))
                /\ (p[2] = Len(s) \/ IsWs(CharAt(cs, p[2]))) } }

\* lit in s
Contains(s, lit) ==
    \E i \in 0 .. Len(s) - Len(lit) : Slice(s, i, i + Len(lit)) = lit

(***************************************************************************)
(* css_audit.py: the class tokens of a selector and the classes a source   *)
(* file uses                                                               *)
(***************************************************************************)

\* [a-zA-Z0-9_-] and [a-zA-Z0-9]
NameChars == Letters \cup Digits \cup {"_", "-"}
AlphaNum == Letters \cup Digits

\* \s*=\s* and ['"]([^'"]*)['"]
Assign == <<Star(<<In(WhiteSpace)>>), Lit("="), Star(<<In(WhiteSpace)>>)>>
QuotedGroup == <<In(Quotes), Open, Star(<<NotIn(Quotes)>>), Close, In(Quotes)>>

\* \.([a-zA-Z0-9_-]+)(?:::?[a-zA-Z-]+)?
selector_class_re ==
    <<Lit("."), Open, Plus(<<In(NameChars)>>), Close,
      Opt(<<Lit(":"), Opt(<<Lit(":")>>), Plus(<<In(Letters \cup {"-"})>>)>>)>>

\* class_matches: the class tokens of one selector, in order.
class_matches(selector_text) == FindAll(selector_class_re, selector_text)

\* 1. className\s*=\s*['"]([^'"]*)['"]
className_re == <<Lit("className")>> \o Assign \o QuotedGroup

\* 2. \.className\s*=\s*['"]([^'"]*)['"]
obj_className_re == <<Lit(".className")>> \o Assign \o QuotedGroup

\* 3. class=['"](.*?)['"] and \${.*?}
template_class_re ==
    <<Lit("class="), In(Quotes), Open, Lazy(<<Dot>>), Close, In(Quotes)>>
template_expr_re == <<Lit("${"), Lazy(<<Dot>>), Lit("}")>>

\* 4. \.classList\.(add|toggle|replace)\(['"]([^'"]+)['"] ; the group is
\*    the second one, the class name.
classList_re ==
    <<Lit(".classList."),
      Alt(<<<<Lit("add")>>, <<Lit("toggle")>>, <<Lit("replace")>>>>),
      Lit("("), In(Quotes), Open, Plus(<<NotIn(Quotes)>>), Close, In(Quotes)>>

\* 5. the template literals, with re.DOTALL; in one that holds "<" and ">":
\*    class=['"]([^'"]*)['"] and \${[^}]*}
template_literal_re ==
    <<Lit(Backtick), Open, Lazy(<<DotAll>>), Close, Lit(Backtick)>>
html_class_re == <<Lit("class=")>> \o QuotedGroup
html_expr_re == <<Lit("${"), Star(<<NotIn({"}"})>>), Lit("}")>>

\* 6. createElement\(.*?\);\s*.*?\.className\s*=\s*['"]([^'"]*)['"] with
\*    re.DOTALL
element_classname_re ==
    <<Lit("createElement("), Lazy(<<DotAll>>), Lit(");"),
      Star(<<In(WhiteSpace)>>), Lazy(<<DotAll>>), Lit(".className")>>
        \o Assign \o QuotedGroup

\* 7. (?:var|let|const)\s+\w+\s*=\s*['"]([^'"]*)['"];\s*.*?\.className
var_classname_re ==
    <<Alt(<<<<Lit("var")>>, <<Lit("let")>>, <<Lit("const")>>>>),
      Plus(<<In(WhiteSpace)>>), Plus(<<In(WordChars)>>)>>
        \o Assign \o QuotedGroup
        \o <<Lit(";"), Star(<<In(WhiteSpace)>>), Lazy(<<Dot>>),
             Lit(".className")>>

\* 8. createElement\(['"][a-zA-Z0-9]+['"]\)[^;]*?className\s*=\s*['"]([^'"]*)['"]
create_el_re ==
    <<Lit("createElement("), In(Quotes), Plus(<<In(AlphaNum)>>), In(Quotes),
      Lit(")"), Lazy(<<NotIn({";"})>>), Lit("className")>>
        \o Assign \o QuotedGroup

\* 9. ['"]([a-zA-Z0-9_-]+(?:-[a-zA-Z0-9_-]+)*)['"] and, for each such
\*    literal, ^[a-zA-Z0-9]+-[a-zA-Z0-9-]+$
class_var_re ==
    <<In(Quotes), Open, Plus(<<In(NameChars)>>),
      Star(<<Lit("-"), Plus(<<In(NameChars)>>)>>), Close, In(Quotes)>>
kebab_re ==
    <<Plus(<<In(AlphaNum)>>), Lit("-"), Plus(<<In(AlphaNum \cup {"-"})>>),
      AtEnd>>

\* The blank-separated tokens of every string of the sequence groups.
Tokens(groups) == UNION { Split(groups[k]) : k \in 1 .. Len(groups) }

\* The strings of groups with the matches of re taken out.
Cleaned(re, groups) == [k \in 1 .. Len(groups) |-> Remove(re, groups[k])]

\* The elements of a sequence.
Range(seq) == {seq[k] : k \in 1 .. Len(seq)}

\* Pattern 5 on one template literal.
markup_classes(template) ==
    IF Contains(template, "<") /\ Contains(template, ">")
    THEN Tokens(Cleaned(html_expr_re, FindAll(html_class_re, template)))
    ELSE {}

\* Patterns 1 to 8: the class attributes, className assignments and
\* classList calls.
assigned_classes(content) ==
    Tokens(FindAll(className_re, content))
      \cup Tokens(FindAll(obj_className_re, content))
      \cup Tokens(Cleaned(template_expr_re,
                          FindAll(template_class_re, content)))
      \cup Range(FindAll(classList_re, content))
      \cup UNION {markup_classes(template) :
                    template \in Range(FindAll(template_literal_re, content))}
      \cup Tokens(FindAll(element_classname_re, content))
      \cup Tokens(FindAll(var_classname_re, content))
      \cup Tokens(FindAll(create_el_re, content))

\* Pattern 9: the quoted literals that look like a kebab-case class name.
literal_classes(content) ==
    {potential_class \in Range(FindAll(class_var_re, content)) :
        Match(kebab_re, Chars(potential_class), 0, -1, -1).ok}

\* extract_classes_from_html_js: js_classes.  is_html says that the path
\* ends in .html or .htm, tag_classes are the class attributes of the tags
\* BeautifulSoup finds in the file.
extract_classes_from_html_js(content, is_html, tag_classes) ==
    assigned_classes(content)
        \cup literal_classes(content)
        \cup (IF is_html THEN tag_classes ELSE {})

(***************************************************************************)
(* css_audit.py: extract_classes_from_css and the merge of main            *)
(*                                                                         *)
(* A stylesheet is what cssutils.parseString yields: a sequence of rules,  *)
(* each with its type, its selectorList (the selectorText of each          *)
(* selector) and its style (the properties the iteration of rule.style     *)
(* yields).  A Python set that holds declarations is an object: two class  *)
(* records can hold the same one.  heap[d] is the content of object d.     *)
(***************************************************************************)

STYLE_RULE == "STYLE_RULE"
MEDIA_RULE == "MEDIA_RULE"

\* The type of a rule at which the parse or the traversal raises an error.
FAULTY_RULE == "FAULTY_RULE"

Property(name, value) == [name |-> name, value |-> value, comment |-> FALSE]
Rule(type, selectorList, style) ==
    [type |-> type, selectorList |-> selectorList, style |-> style]

\* f"{prop.name}: {prop.value}"
Declaration(prop) == prop.name \o ": " \o prop.value

\* declarations of one rule: the set built from rule.style.
rule_declarations(rule) ==
    {Declaration(rule.style[k]) :
        k \in {j \in 1 .. Len(rule.style) : ~rule.style[j].comment}}

\* One round of "for class_name in class_matches": a class that has no
\* record gets one that holds the object d, a class that has one gets the
\* declarations added to the object its record holds.
AddClass(st, class_name, declarations, d, source_file, selector_text) ==
    IF class_name \notin DOMAIN st.map
    THEN [heap |-> st.heap,
          map |-> st.map @@
                    (class_name :> [declarations |-> d,
                                    files |-> {source_file},
                                    count |-> 0,
                                    selectors |-> {selector_text}])]
    ELSE [heap |-> [st.heap EXCEPT ![st.map[class_name].declarations] =
                                       @ \cup declarations],
          map |-> [st.map EXCEPT ![class_name].files = @ \cup {source_file},
                                 ![class_name].selectors =
                                       @ \cup {selector_text}]]

\* The first class of the selector alone takes the declarations.
AddFirstClass(st, names, declarations, d, source_file, selector_text) ==
    AddClass(st, Head(names), declarations, d, source_file, selector_text)

RECURSIVE AddClasses(_, _, _, _, _, _)
AddClasses(st, names, declarations, d, source_file, selector_text) ==
    IF names = <<>> THEN st
    ELSE AddClasses(AddClass(st, Head(names), declarations, d, source_file,
                             selector_text),
                    Tail(names), declarations, d, source_file, selector_text)

\* One round of "for selector in rule.selectorList".  The new set object is
\* put on the heap when a class of the selector takes it; otherwise nothing
\* refers to it.
AddMatches(st, names, declarations, source_file, selector_text) ==
    LET taken == \E k \in 1 .. Len(names) : names[k] \notin DOMAIN st.map
        d == Len(st.heap) + 1
    IN  IF names = <<>> THEN st
        ELSE AddClasses([heap |-> IF taken THEN Append(st.heap, declarations)
                                           ELSE st.heap,
                         map |-> st.map],
                        names, declarations, d, source_file, selector_text)

AddSelector(st, rule, selector_text, source_file) ==
    AddMatches(st, class_matches(selector_text), rule_declarations(rule),
               source_file, selector_text)

RECURSIVE AddSelectors(_, _, _, _)
AddSelectors(st, rule, selectors, source_file) ==
    IF selectors = <<>> THEN st
    ELSE AddSelectors(AddSelector(st, rule, Head(selectors), source_file),
                      rule, Tail(selectors), source_file)

\* One round of "for rule in stylesheet".
AddRule(st, rule, source_file) ==
    IF rule.type = STYLE_RULE
    THEN AddSelectors(st, rule, rule.selectorList, source_file)
    ELSE st

RECURSIVE AddRules(_, _, _)
AddRules(st, rules, source_file) ==
    IF rules = <<>> THEN st
    ELSE AddRules(AddRule(st, Head(rules), source_file), Tail(rules),
                  source_file)

\* The rules of a stylesheet before the first one that raises an error.
Traversed(rules) ==
    LET faulty == {k \in 1 .. Len(rules) : rules[k].type = FAULTY_RULE}
    IN  IF faulty = {} THEN rules ELSE SubSeq(rules, 1, Min(faulty) - 1)

\* The records gathered before the error are returned.
ExtractKeepingPartial(h, css_file) ==
    AddRules([heap |-> h, map |-> <<>>], Traversed(css_file.rules),
             css_file.name)

\* extract_classes_from_css from its try block on: the class_map of one
\* stylesheet, its sets on the heap h; the empty class_map when a rule
\* raises an error ("except Exception: return {}").
extract_classes_from_css(h, css_file) ==
    IF Traversed(css_file.rules) # css_file.rules
    THEN [heap |-> h, map |-> <<>>]
    ELSE AddRules([heap |-> h, map |-> <<>>], css_file.rules, css_file.name)

\* The record of the file takes the place of the record the class has.
MergeClassReplacing(st, fst, class_name) ==
    [heap |-> st.heap,
     map |-> [c \in DOMAIN st.map \cup {class_name} |->
                 IF c = class_name THEN fst.map[c] ELSE st.map[c]]]

\* One round of main's "for class_name, data in file_class_map.items()".
MergeClass(st, fst, class_name) ==
    LET data == fst.map[class_name]
    IN  IF class_name \in DOMAIN st.map
        THEN [heap |-> [st.heap EXCEPT ![st.map[class_name].declarations] =
                                           @ \cup fst.heap[data.declarations]],
              map |-> [st.map EXCEPT
                         ![class_name].files = @ \cup data.files,
                         ![class_name].selectors = @ \cup data.selectors]]
        ELSE [heap |-> st.heap, map |-> st.map @@ (class_name :> data)]

\* The least string of a set.
Least(strings) ==
    CHOOSE x \in strings : \A y \in strings \ {x} : StrLess(x, y)

\* The rounds for the classes of the set names; a round reads only objects
\* of the file and writes only objects of earlier files, so the order of
\* the rounds makes no difference.
RECURSIVE MergeClasses(_, _, _)
MergeClasses(st, fst, names) ==
    IF names = {} THEN st
    ELSE MergeClasses(MergeClass(st, fst, Least(names)), fst,
                      names \ {Least(names)})

\* main, lines 578 to 584: the records fst of one stylesheet merged.
MergeMap(st, fst) ==
    MergeClasses([heap |-> fst.heap, map |-> st.map], fst, DOMAIN fst.map)

\* main, lines 577 to 584, for one stylesheet.
MergeFile(st, css_file) ==
    MergeMap(st, extract_classes_from_css(st.heap, css_file))

\* main, lines 575 to 584: class_map after the stylesheets css.
RECURSIVE MergeFiles(_, _)
MergeFiles(st, css) ==
    IF css = <<>> THEN st
    ELSE MergeFiles(MergeFile(st, Head(css)), Tail(css))

EmptyModel == [heap |-> <<>>, map |-> <<>>]

\* The declarations of every class of a model, as plain sets.
DeclarationSets(st) ==
    [c \in DOMAIN st.map |-> st.heap[st.map[c].declarations]]

(***************************************************************************)
(* css_audit.py: classify_risk, hash_declarations, find_duplicate_rules    *)
(***************************************************************************)

HIGH_RISK_PROPS ==
    {"display", "position", "float", "flex", "flex-direction", "flex-wrap",
     "flex-flow", "flex-grow", "flex-shrink", "flex-basis", "grid",
     "grid-template", "grid-template-columns", "grid-template-rows",
     "grid-column", "grid-row", "width", "height", "min-width", "min-height",
     "max-width", "max-height", "overflow", "overflow-x", "overflow-y",
     "margin", "padding"}

MED_RISK_PROPS ==
    {"margin-top", "margin-right", "margin-bottom", "margin-left",
     "padding-top", "padding-right", "padding-bottom", "padding-left",
     "margin-inline", "margin-block", "padding-inline", "padding-block"}

\* s.strip()
Strip(s) ==
    LET cs == Chars(s)
        solid == {i \in 0 .. Len(s) - 1 : ~IsWs(CharAt(cs, i))}
    IN  IF solid = {} THEN "" ELSE Slice(s, Min(solid), Max(solid) + 1)

\* decl.split(':')[0].strip()
PropertyOf(decl) ==
    LET cs == Chars(decl)
        colons == {i \in 0 .. Len(decl) - 1 : CharAt(cs, i) = ":"}
    IN  Strip(Slice(decl, 0, IF colons = {} THEN Len(decl) ELSE Min(colons)))

\* The members of props alone, without their dash-suffixed variants.
AtRiskExactly(prop, props) == prop \in props

\* prop in props or any(prop.startswith(p+'-') for p in props)
AtRisk(prop, props) ==
    prop \in props \/ \E p \in props : StartsWith(prop, p \o "-")

\* classify_risk on the declarations in the order the iteration yields them.
RECURSIVE classify_risk(_)
classify_risk(declarations) ==
    IF declarations = <<>> THEN "LOW"
    ELSE LET prop == PropertyOf(Head(declarations))
         IN  IF AtRisk(prop, HIGH_RISK_PROPS) THEN "HIGH"
             ELSE IF AtRisk(prop, MED_RISK_PROPS) THEN "MEDIUM"
             ELSE classify_risk(Tail(declarations))

\* sorted(list(declarations)): x put into the ascending sequence sorted.
RECURSIVE InsertAscending(_, _)
InsertAscending(sorted, x) ==
    IF sorted = <<>> THEN <<x>>
    ELSE IF StrLess(x, Head(sorted)) THEN <<x>> \o sorted
    ELSE <<Head(sorted)>> \o InsertAscending(Tail(sorted), x)

RECURSIVE Sorted(_)
Sorted(list) ==
    IF list = <<>> THEN <<>>
    ELSE InsertAscending(Sorted(Tail(list)), Head(list))

\* ''.join(strings)
RECURSIVE Join(_)
Join(strings) ==
    IF strings = <<>> THEN "" ELSE Head(strings) \o Join(Tail(strings))

\* hash_declarations.  The digest stands for the string it is taken of:
\* md5 is taken to give distinct strings distinct digests.
hash_declarations(declarations) == Join(Sorted(declarations))

\* find_duplicate_rules on the declaration lists of the classes: the classes
\* of every hash that more than one class has.
find_duplicate_rules(lists) ==
    LET hash_to_classes ==
            [h \in {hash_declarations(lists[c]) : c \in DOMAIN lists} |->
                {c \in DOMAIN lists : hash_declarations(lists[c]) = h}]
    IN  [h \in {g \in DOMAIN hash_to_classes :
                    Cardinality(hash_to_classes[g]) > 1} |->
            hash_to_classes[h]]

\* The orders in which the iteration of a set can yield its elements.
Orders(set) ==
    {o \in [1 .. Cardinality(set) -> set] :
        \A i, j \in 1 .. Cardinality(set) : i # j => o[i] # o[j]}

(***************************************************************************)
(* css_audit.py: guess_component                                           *)
(***************************************************************************)

\* The keys and components of COMPONENT_MAP in the order of the dict.
COMPONENT_MAP ==
    << <<"modal", "Modal">>, <<"simple-modal", "SimpleModal">>,
      <<"form-modal", "FormModal">>, <<"app-modal", "AppModal">>,
      <<"wide-modal", "WideModal">>, <<"narrow-modal", "NarrowModal">>,
      <<"error-modal", "ErrorModal">>, <<"message-modal", "MessageModal">>,
      <<"account-modal", "AccountModal">>,
      <<"accounts-modal", "AccountsModal">>,
      <<"project-modal", "ProjectModal">>,
      <<"projects-modal", "ProjectsModal">>, <<"user-modal", "UserModal">>,
      <<"users-modal", "UsersModal">>, <<"login-modal", "LoginModal">>,
      <<"register-modal", "RegisterModal">>,
      <<"text-prompt-modal", "TextPromptModal">>,
      <<"yesno-modal", "YesNoModal">>, <<"jobs-modal", "JobsModal">>,
      <<"documents-modal", "DocumentsModal">>,
      <<"history-modal", "HistoryModal">>,
      <<"document-item-history-modal", "DocumentItemHistoryModal">>,
      <<"password-reset-modal", "PasswordResetModal">>,
      <<"corpus-filter-modal", "CorpusFilterModal">>,
      <<"choose-content-modal", "ChooseContentForAIModal">>,
      <<"import-wizard-modal", "QuestionImportModal">>,
      <<"duplicate-permissions-modal", "DuplicatePermissionsModal">>,
      <<"add-corpus-permission-modal", "AddCorpusPermissionModal">>,
      <<"add-docchain-permission-modal", "AddDocchainPermissionModal">>,
      <<"btn", "Button">>, <<"btn-primary", "PrimaryButton">>,
      <<"btn-secondary", "SecondaryButton">>,
      <<"btn-danger", "DangerButton">>,
      <<"btn-negative", "NegativeButton">>, <<"btn-back", "BackButton">>,
      <<"btn-cancel", "CancelButton">>, <<"btn-sm", "SmallButton">>,
      <<"btn-label", "ButtonLabel">>, <<"button-group", "ButtonGroup">>,
      <<"toggle-button", "ToggleButton">>,
      <<"toggle-button-group", "ToggleButtonGroup">>,
      <<"form-group", "FormGroup">>, <<"doc-input", "DocInput">>,
      <<"async-form", "AsyncForm">>, <<"filter-select", "FilterSelect">>,
      <<"checkbox-container", "CheckboxContainer">>,
      <<"checkbox-item", "CheckboxItem">>,
      <<"checkbox-grid", "CheckboxGrid">>,
      <<"mapping-field-select", "MappingFieldSelect">>,
      <<"mapping-field-label", "MappingFieldLabel">>,
      <<"mapping-field-group", "MappingFieldGroup">>,
      <<"modal-header", "ModalHeader">>,
      <<"modal-content", "ModalContent">>,
      <<"modal-footer", "ModalFooter">>, <<"modal-close", "ModalClose">>,
      <<"modal-overlay", "ModalOverlay">>, <<"overlay", "Overlay">>,
      <<"status-indicator", "StatusIndicator">>,
      <<"status-container", "StatusContainer">>,
      <<"status-icon", "StatusIcon">>,
      <<"loading-indicator", "LoadingIndicator">>,
      <<"loading-placeholder", "LoadingPlaceholder">>,
      <<"error-placeholder", "ErrorPlaceholder">>,
      <<"progress-bar", "ProgressBar">>,
      <<"progress-container", "ProgressContainer">>,
      <<"progress-stats", "ProgressStats">>,
      <<"manual-loading-overlay", "ManualLoadingOverlay">>,
      <<"fas", "FontAwesomeIcon">>, <<"fa-spinner", "LoadingSpinner">>,
      <<"fa-spin", "SpinAnimation">>, <<"info-icon", "InfoIcon">>,
      <<"warning-icon", "WarningIcon">>, <<"success-icon", "SuccessIcon">>,
      <<"dropdown", "Dropdown">>, <<"dropdown-header", "DropdownHeader">>,
      <<"dropdown-content", "DropdownContent">>,
      <<"dropdown-footer", "DropdownFooter">>,
      <<"jobs-dropdown", "JobsDropdown">>,
      <<"notifications-dropdown", "NotificationsDropdown">>,
      <<"stage-form", "StageForm">>,
      <<"stage-form-rfp-question-import", "StageFormRfpQuestionImport">>,
      <<"stage-form-rfp-answer-questions", "StageFormRfpAnswerQuestions">>,
      <<"stage-form-rfp-initial-review", "StageFormAnalysisLMInitialReview">>,
      <<"stage-title", "StageTitle">>,
      <<"stage-description", "StageDescription">>,
      <<"stage-number", "StageNumber">>,
      <<"stage-separator", "StageSeparator">>,
      <<"questions-grid", "QuestionsGrid">>,
      <<"ag-overlay-loading-center", "AgGridLoadingOverlay">>,
      <<"ag-overlay-no-rows-center", "AgGridNoRowsOverlay">>,
      <<"topic-tabs", "TopicTabs">>,
      <<"tab-loading-indicator", "TabLoadingIndicator">>,
      <<"worksheet-tabs-container", "WorksheetTabsContainer">>,
      <<"control-pane", "ControlPane">>, <<"filter-pane", "FilterPane">>,
      <<"sub-pane", "SubPane">>, <<"doc-container", "DocumentContainer">>,
      <<"doc-stage-breadcrumb", "DocumentStageBreadcrumb">>,
      <<"doc-stage-content-wrapper", "DocumentStageContentWrapper">>,
      <<"doc-title", "DocumentTitle">>, <<"doc-header", "DocumentHeader">>,
      <<"doc-footer", "DocumentFooter">>,
      <<"doc-main-content", "DocumentMainContent">>,
      <<"breadcrumb-label", "BreadcrumbLabel">>,
      <<"import-step", "ImportStep">>,
      <<"import-step-select-file", "ImportStepSelectFile">>,
      <<"import-step-map-columns", "ImportStepMapColumns">>,
      <<"import-step-preview", "ImportStepPreview">>,
      <<"import-step-results", "ImportStepResults">>,
      <<"import-step-confirm", "ImportStepConfirm">>,
      <<"import-grid-container", "ImportGridContainer">>,
      <<"import-wizard-content", "ImportWizardContent">>,
      <<"import-status-container", "ImportStatusContainer">>,
      <<"import-progress-section", "ImportProgressSection">>,
      <<"import-note", "ImportNote">>,
      <<"drag-drop-area", "DragDropArea">>,
      <<"mapping-container", "MappingContainer">>,
      <<"mapping-section", "MappingSection">>,
      <<"mapping-instructions", "MappingInstructions">>,
      <<"mapping-form", "MappingForm">>, <<"mapping-item", "MappingItem">>,
      <<"mappings-list", "MappingsList">>,
      <<"include-exclude-toggle", "IncludeExcludeToggle">>,
      <<"worksheet-item", "WorksheetItem">>,
      <<"worksheet-list", "WorksheetList">>,
      <<"worksheet-header", "WorksheetHeader">>,
      <<"worksheet-result-item", "WorksheetResultItem">>,
      <<"worksheet-results-list", "WorksheetResultsList">>,
      <<"worksheet-results-section", "WorksheetResultsSection">>,
      <<"preview-container", "PreviewContainer">>,
      <<"preview-section", "PreviewSection">>,
      <<"preview-note", "PreviewNote">>,
      <<"preview-summary-section", "PreviewSummarySection">>,
      <<"preview-summary-label", "PreviewSummaryLabel">>,
      <<"preview-summary-info", "PreviewSummaryInfo">>,
      <<"no-data-message", "NoDataMessage">>,
      <<"no-sheets-message", "NoSheetsMessage">>,
      <<"summary-section", "SummarySection">>,
      <<"summary-details", "SummaryDetails">>,
      <<"summary-message", "SummaryMessage">>,
      <<"results-summary-panel", "ResultsSummaryPanel">>,
      <<"stat-item", "StatItem">>, <<"stat-label", "StatLabel">>,
      <<"stat-value", "StatValue">>,
      <<"stats-container", "StatsContainer">>,
      <<"success-stat", "SuccessStat">>, <<"warning-stat", "WarningStat">>,
      <<"failure-stat", "FailureStat">>,
      <<"percentage-stat", "PercentageStat">>,
      <<"selectable-list", "SelectableList">>,
      <<"selectable-list-container", "SelectableListContainer">>,
      <<"selectable-list-item", "SelectableListItem">>,
      <<"analysis-lm-results", "AnalysisLMResults">>,
      <<"custom-tooltip", "CustomTooltip">>,
      <<"cell-tooltip", "CellTooltip">>, <<"users-table", "UsersTable">>,
      <<"jobs-table", "JobsTable">>, <<"accounts-table", "AccountsTable">>,
      <<"projects-table", "ProjectsTable">>,
      <<"files-table", "FilesTable">>, <<"top-bar", "TopBar">>>>

UpperCase == "ABCDEFGHIJKLMNOPQRSTUVWXYZ"
LowerCase == "abcdefghijklmnopqrstuvwxyz"

\* The letter c in the other case when it stands in the alphabet from.
Recase(c, from, to) ==
    IF \E k \in 1 .. Len(from) : SubSeq(from, k, k) = c
    THEN LET k == CHOOSE k \in 1 .. Len(from) : SubSeq(from, k, k) = c
         IN  SubSeq(to, k, k)
    ELSE c

\* s.lower() and s.upper()
RECURSIVE Lower(_)
Lower(s) ==
    IF s = "" THEN ""
    ELSE Recase(SubSeq(s, 1, 1), UpperCase, LowerCase)
             \o Lower(SubSeq(s, 2, Len(s)))

\* s.capitalize()
Capitalize(s) ==
    IF s = "" THEN ""
    ELSE Recase(SubSeq(s, 1, 1), LowerCase, UpperCase)
             \o Lower(SubSeq(s, 2, Len(s)))

\* The first entry of the table (a sequence of pairs) whose key satisfies
\* Hit, 0 when none does.
FirstKey(table, Hit(_)) ==
    LET hits == {k \in 1 .. Len(table) : Hit(table[k][1])}
    IN  IF hits = {} THEN 0 ELSE Min(hits)

modal_types ==
    <<"account", "accounts", "user", "users", "project", "projects",
      "document", "documents", "error", "message", "login", "register",
      "password", "corpus", "choose-content", "text-prompt", "yesno",
      "import", "jobs", "history">>

\* What the loop over modal_types returns for the type it stops at.
ModalComponent(modal_type) ==
    CASE modal_type = "choose-content" -> "ChooseContentForAIModal"
      [] modal_type = "accounts" -> "AccountsModal"
      [] modal_type = "users" -> "UsersModal"
      [] modal_type = "projects" -> "ProjectsModal"
      [] modal_type = "documents" -> "DocumentsModal"
      [] modal_type = "yesno" -> "YesNoModal"
      [] modal_type = "text-prompt" -> "TextPromptModal"
      [] modal_type = "password" -> "PasswordResetModal"
      [] OTHER -> Capitalize(modal_type) \o "Modal"

\* The modal stage: the first type of modal_types the name holds.
ModalStage(lower) ==
    LET hits == {k \in 1 .. Len(modal_types) : Contains(lower, modal_types[k])}
    IN  IF hits = {} THEN "Modal" ELSE ModalComponent(modal_types[Min(hits)])

ImportStepStage(lower) ==
    CASE Contains(lower, "select-file") -> "ImportStepSelectFile"
      [] Contains(lower, "map-columns") -> "ImportStepMapColumns"
      [] Contains(lower, "preview") -> "ImportStepPreview"
      [] Contains(lower, "confirm") -> "ImportStepConfirm"
      [] Contains(lower, "results") -> "ImportStepResults"
      [] OTHER -> "ImportStep"

StageFormStage(lower) ==
    CASE Contains(lower, "rfp-answer-questions") -> "StageFormRfpAnswerQuestions"
      [] Contains(lower, "rfp-initial-review") ->
            "StageFormAnalysisLMInitialReview"
      [] Contains(lower, "rfp-question-import") -> "StageFormRfpQuestionImport"
      [] OTHER -> "StageForm"

ButtonStage(class_name) ==
    CASE class_name = "btn-primary" -> "PrimaryButton"
      [] class_name = "btn-secondary" -> "SecondaryButton"
      [] class_name = "btn-danger" -> "DangerButton"
      [] class_name = "btn-negative" -> "NegativeButton"
      [] class_name = "btn-label" -> "ButtonLabel"
      [] OTHER -> "Button"

\* The dict patterns of guess_component, in its order.
word_patterns ==
    << <<"grid", "Grid">>, <<"pane", "Pane">>, <<"tab", "Tab">>,
       <<"form", "Form">>, <<"stat", "Stat">>, <<"indicator", "Indicator">>,
       <<"dropdown", "Dropdown">>, <<"list", "List">>,
       <<"section", "Section">>, <<"container", "Container">>,
       <<"item", "Item">>, <<"header", "Header">>, <<"footer", "Footer">>,
       <<"panel", "Panel">>, <<"label", "Label">>, <<"message", "Message">>,
       <<"wizard", "Wizard">>, <<"loading", "Loading">>,
       <<"progress", "Progress">>, <<"overlay", "Overlay">>,
       <<"doc", "Document">>, <<"status", "Status">> >>

\* class_name.replace('-', ' ').split(), in order.
RECURSIVE Words(_, _)
Words(cs, i) ==
    LET from == Min({j \in i .. Len(cs) :
                        j = Len(cs) \/ ~(IsWs(cs[j + 1]) \/ cs[j + 1] = "-")})
        to == Min({j \in from .. Len(cs) :
                      j = Len(cs) \/ IsWs(cs[j + 1]) \/ cs[j + 1] = "-"})
    IN  IF from = Len(cs) THEN <<>>
        ELSE <<[k \in 1 .. to - from |-> cs[from + k]]>> \o Words(cs, to)

\* The characters cs as a string.
RECURSIVE Text(_)
Text(cs) == IF cs = <<>> THEN "" ELSE Head(cs) \o Text(Tail(cs))

\* The word stage: the name in CamelCase when it has several words, else
\* the capitalized name and the component type.
WordStage(class_name, component_type) ==
    LET words == Words(Chars(class_name), 0)
    IN  IF Len(words) > 1
        THEN Join([k \in 1 .. Len(words) |-> Capitalize(Text(words[k]))])
        ELSE Capitalize(class_name) \o component_type

\* The dict file_patterns of guess_component, in its order.
file_patterns ==
    << <<"modals/", "Modal">>, <<"stages/", "Stage">>,
       <<"components/docitemimport/", "Import">>,
       <<"framework/", "Framework">>, <<"top-bar/", "TopBar">>,
       <<"tabs/", "Tab">> >>

\* The first selector of the sequence selectors and, within it, the first
\* key of table that Hit(selector, key) holds for: the component of that
\* key, "" when there is none.
FromSelectors(selectors, table, Hit(_, _)) ==
    LET KeyIn(i) == FirstKey(table, LAMBDA key : Hit(selectors[i], key))
        hits == {i \in 1 .. Len(selectors) : KeyIn(i) > 0}
    IN  IF hits = {} THEN "" ELSE table[KeyIn(Min(hits))][2]

InSelector(selector, key) == Contains(selector, key)

\* selector.lower() for every selector.
Lowered(selectors) == [k \in 1 .. Len(selectors) |-> Lower(selectors[k])]

\* guess_component; selectors in the order the iteration of the set yields
\* them.
guess_component(class_name, selectors) ==
    LET lower == Lower(class_name)
        IsName(key) == key = lower
        InName(key) == Contains(lower, key)
        exact == FirstKey(COMPONENT_MAP, IsName)
        broad == FirstKey(COMPONENT_MAP, InName)
        word == FirstKey(word_patterns, InName)
        by_key == FromSelectors(Lowered(selectors), COMPONENT_MAP, InSelector)
        by_file == FromSelectors(selectors, file_patterns, InSelector)
    IN  IF exact > 0 THEN COMPONENT_MAP[exact][2]
        ELSE IF Contains(lower, "modal") THEN ModalStage(lower)
        ELSE IF Contains(lower, "import-step") THEN ImportStepStage(lower)
        ELSE IF Contains(lower, "stage-form") THEN StageFormStage(lower)
        ELSE IF StartsWith(class_name, "btn") THEN ButtonStage(class_name)
        ELSE IF broad > 0 THEN COMPONENT_MAP[broad][2]
        ELSE IF word > 0 THEN WordStage(class_name, word_patterns[word][2])
        ELSE IF by_key # "" THEN by_key
        ELSE IF by_file # "" THEN by_file
        ELSE "Unknown"

(***************************************************************************)
(* Bounds and inputs                                                       *)
(***************************************************************************)

\* Files given to one run, and runs of the tool over the same files.
NumFiles == 2
MaxRuns == 2

\* The command-line flags: every combination.
AllArgs == [dry_run : BOOLEAN, all_yes : BOOLEAN, no_backup : BOOLEAN]

\* What --map and the OLD:NEW pairs supply, in the order of the dict: no
\* mapping at all, only a comment key, a comment key and a class renamed to
\* a longer name, two classes renamed to shorter names.
Pair(old, new) == [old |-> old, new |-> new]
CommentPair == Pair("/* buttons */", "")
RawMappings ==
    { <<>>,
      <<CommentPair>>,
      <<CommentPair, Pair("btn", "button")>>,
      <<Pair("btn", "ok"), Pair("primary", "main")>> }

\* Source texts of the files of a run.
Texts ==
    { "className=\"btn\"",
      "<a class=\"btn primary\">",
      "const n = 1;" }

(***************************************************************************)
(* State                                                                   *)
(***************************************************************************)

VARIABLES
    args,              \* argparse namespace: dry_run, all_yes, no_backup
    raw_mapping,       \* the mapping as supplied (--map file and pairs)
    files,             \* the files main walks, in order
    disk,              \* file -> text on disk
    bak,               \* file -> text of file.bak, NoFile when absent
    run,               \* number of the current run of the tool
    pc,                \* where the run is
    mapping,           \* main: result of load_mapping
    fi,                \* main: index in files of the current file
    any_changes,       \* main: any_changes
    global_yes,        \* main: global_yes
    exit_status,       \* exit status of the run, NoStatus while running
    content,           \* process_file: content
    original_content,  \* process_file: original_content
    changed,           \* process_file: changed
    all_changes,       \* process_file: all_changes
    yes_flag,          \* process_file: its parameter global_yes
    mi,                \* process_file: index in mapping of old_class
    references,        \* process_file: references of old_class
    ri,                \* process_file: index in references
    ci,                \* process_file: index in the sorted all_changes
    io,                \* history: reads, prompts (with the answer), backups
                       \*          and writes of the run, in order
    run_disk,          \* history: disk at the start of the run
    disk0,             \* history: disk before the first run
    \* css_audit.py
    css_args,          \* args.css: the stylesheets, each as cssutils parses it
    html_args,         \* args.html: the files each pattern expands to
    src,               \* source file -> its text and what it is
    apc,               \* where the audit is
    ai,                \* main: index of the stylesheet or source file at hand
    heap,              \* the set objects that hold declarations, by identity
    class_map,         \* main: class_map; declarations is an index in heap
    processed_files,   \* main: processed_files
    labels,            \* main: data['risk'] and data['component'] per class
    duplicates,        \* main: duplicates, hash -> class names
    \* css_replacer.py
    mapping_file,      \* --mapping: the JSON object, its pairs in order
    audit_file,        \* --audit: the JSON object, class -> audit record
    rpc,               \* where the replacer is
    class_mapping,     \* main: class_mapping
    ki,                \* generate_deprecated_css: index of the pair at hand
    deprecated_css     \* the strings written to the deprecated-classes file

vars == <<args, raw_mapping, files, disk, bak, run, pc, mapping, fi,
          any_changes, global_yes, exit_status, content, original_content,
          changed, all_changes, yes_flag, mi, references, ri, ci, io,
          run_disk, disk0, css_args, html_args, src, apc, ai, heap,
          class_map, processed_files, labels, duplicates, mapping_file,
          audit_file, rpc, class_mapping, ki, deprecated_css>>

replacerVars == <<mapping_file, audit_file, rpc, class_mapping, ki,
                  deprecated_css>>

auditVars == <<css_args, html_args, src, apc, ai, heap, class_map,
               processed_files, labels, duplicates>>
renamerVars == <<args, raw_mapping, files, disk, bak, run, pc, mapping, fi,
                 any_changes, global_yes, exit_status, content,
                 original_content, changed, all_changes, yes_flag, mi,
                 references, ri, ci, io, run_disk, disk0>>

mainVars == <<mapping, fi, any_changes, global_yes, exit_status>>
fileVars == <<content, original_content, changed, all_changes, yes_flag,
              mi, references, ri, ci>>
inputVars == <<args, raw_mapping, files>>

NoFile == "<absent>"
NoStatus == "running"

\* An entry of io; key is the operator's answer to a prompt, "" otherwise.
Event(op, file, key) == [op |-> op, file |-> file, key |-> key]

\* The first file of the run, whatever file main has come to.
first_path == files[1]

\* The file process_file works on.
path == files[fi]

\* process_file is not running: its locals hold nothing.
IdleFile ==
    /\ content = ""
    /\ original_content = ""
    /\ changed = FALSE
    /\ all_changes = <<>>
    /\ yes_flag = FALSE
    /\ mi = 0
    /\ references = <<>>
    /\ ri = 0
    /\ ci = 0

\* The audit is not running.
NoAudit ==
    /\ css_args = <<>>
    /\ html_args = <<>>
    /\ src = <<>>
    /\ apc = "off"
    /\ ai = 0
    /\ heap = <<>>
    /\ class_map = <<>>
    /\ processed_files = <<>>
    /\ labels = <<>>
    /\ duplicates = <<>>

\* The replacer is not running.
NoReplacer ==
    /\ mapping_file = <<>>
    /\ audit_file = <<>>
    /\ rpc = "off"
    /\ class_mapping = <<>>
    /\ ki = 0
    /\ deprecated_css = <<>>

InitWith(fileSeqs, texts, argSet, mappings) ==
    /\ NoAudit
    /\ NoReplacer
    /\ args \in argSet
    /\ raw_mapping \in mappings
    /\ files \in fileSeqs
    /\ disk \in [{files[k] : k \in 1 .. Len(files)} -> texts]
    /\ bak = [f \in DOMAIN disk |-> NoFile]
    /\ run = 1
    /\ pc = "load"
    /\ mapping = <<>>
    /\ fi = 0
    /\ any_changes = FALSE
    /\ global_yes = FALSE
    /\ exit_status = NoStatus
    /\ IdleFile
    /\ io = <<>>
    /\ run_disk = disk
    /\ disk0 = disk

Init == InitWith({[k \in 1 .. NumFiles |-> k]}, Texts, AllArgs, RawMappings)

(***************************************************************************)
(* load_mapping and main                                                   *)
(***************************************************************************)

IsCommentKey(pair) == StartsWith(pair.old, "/*")

\* load_mapping: exits when nothing was supplied, then drops the comment
\* keys.
load_mapping(raw) ==
    [exits |-> raw = <<>>,
     mapping |-> SelectSeq(raw, LAMBDA pair : ~IsCommentKey(pair))]

\* main up to its file loop.
LoadMapping ==
    /\ pc = "load"
    /\ IF load_mapping(raw_mapping).exits
       THEN /\ exit_status' = 1
            /\ pc' = "done"
            /\ UNCHANGED <<mapping, fi, any_changes, global_yes>>
       ELSE /\ mapping' = load_mapping(raw_mapping).mapping
            /\ any_changes' = FALSE
            /\ global_yes' = FALSE
            /\ fi' = 1
            /\ pc' = "next_file"
            /\ UNCHANGED exit_status
    /\ UNCHANGED <<auditVars, replacerVars, inputVars, disk, bak, run, fileVars, io, run_disk, disk0>>

\* process_file returns result to main's loop:
\* if process_file(...): any_changes = True, and the next file.
ReturnFrom(result) ==
    /\ any_changes' = (any_changes \/ result)
    /\ fi' = fi + 1
    /\ pc' = "next_file"
    /\ content' = ""
    /\ original_content' = ""
    /\ changed' = FALSE
    /\ all_changes' = <<>>
    /\ yes_flag' = FALSE
    /\ mi' = 0
    /\ references' = <<>>
    /\ ri' = 0
    /\ ci' = 0
    /\ UNCHANGED <<mapping, global_yes, exit_status>>

\* The status main ends with: sys.exit(1) under --dry-run when any file
\* reported a change.
ExitStatus(dry_run, anyChanges) == IF dry_run /\ anyChanges THEN 1 ELSE 0

\* main after its last file.
Exit ==
    /\ pc = "next_file"
    /\ fi > Len(files)
    /\ exit_status' = ExitStatus(args.dry_run, any_changes)
    /\ pc' = "done"
    /\ UNCHANGED <<auditVars, replacerVars, inputVars, disk, bak, run, mapping, fi, any_changes,
                   global_yes, fileVars, io, run_disk, disk0>>

\* The operator runs the tool again with the same arguments.
Rerun ==
    /\ pc = "done"
    /\ run < MaxRuns
    /\ run' = run + 1
    /\ pc' = "load"
    /\ mapping' = <<>>
    /\ fi' = 0
    /\ any_changes' = FALSE
    /\ global_yes' = FALSE
    /\ exit_status' = NoStatus
    /\ io' = <<>>
    /\ run_disk' = disk
    /\ UNCHANGED <<auditVars, replacerVars, inputVars, disk, bak, fileVars, disk0>>

(***************************************************************************)
(* process_file                                                            *)
(***************************************************************************)

\* The first index >= m of a mapped class with a reference in text,
\* Len(mp) + 1 when no class is left: the outer loop skips a class whose
\* reference list is empty.
RECURSIVE NextClass(_, _, _)
NextClass(text, mp, m) ==
    IF m > Len(mp) THEN m
    ELSE IF find_class_references(text, mp[m].old) # <<>> THEN m
    ELSE NextClass(text, mp, m + 1)

\* process_file up to its first occurrence: read the file, find the first
\* class with references.
StartFile ==
    /\ pc = "next_file"
    /\ fi <= Len(files)
    /\ io' = Append(io, Event("read", path, ""))
    /\ LET text == disk[path]
           m == NextClass(text, mapping, 1)
       IN  IF m > Len(mapping)
           THEN ReturnFrom(FALSE)
           ELSE /\ content' = text
                /\ original_content' = text
                /\ changed' = FALSE
                /\ all_changes' = <<>>
                /\ yes_flag' = global_yes
                /\ mi' = m
                /\ references' = find_class_references(text, mapping[m].old)
                /\ ri' = 1
                /\ ci' = 0
                /\ pc' = "decide"
                /\ UNCHANGED mainVars
    /\ UNCHANGED <<auditVars, replacerVars, inputVars, disk, bak, run, run_disk, disk0>>

\* The choice made without the operator, "prompt" when the operator is
\* asked.
AutoChoice(a, yes) ==
    IF a.all_yes \/ yes THEN "y"
    ELSE IF a.dry_run THEN "n"
    ELSE "prompt"

\* The guard without "and not args.dry_run".
ShouldWriteIgnoringDryRun(isChanged, a) == isChanged

\* if changed and not args.dry_run
ShouldWrite(isChanged, a) == isChanged /\ ~a.dry_run

\* The end of both loops with the values isChanged, queued, yes of changed,
\* all_changes and global_yes: sort the edits and go on to apply them, or
\* return.
EndOfLoops(isChanged, queued, yes) ==
    IF ShouldWrite(isChanged, args)
    THEN /\ all_changes' = SortReverse(queued)
         /\ changed' = isChanged
         /\ yes_flag' = yes
         /\ ci' = 1
         /\ mi' = Len(mapping) + 1
         /\ references' = <<>>
         /\ ri' = 0
         /\ pc' = "splice"
         /\ UNCHANGED <<content, original_content, mainVars>>
    ELSE ReturnFrom(isChanged)

\* A skip-file that falls through to the apply block with the queued edits.
SkipFileApplyingQueued == EndOfLoops(changed, all_changes, yes_flag)

\* choice == "s": return changed.
SkipFile == ReturnFrom(changed)

\* One occurrence decided with the key (y, n, s or a): the rest of the loop
\* body and the step to the next occurrence.
Handle(key) ==
    LET ref == references[ri]
        choice == IF key = "a" THEN "y" ELSE key
        isChanged == changed \/ choice = "y"
        queued == IF choice = "y"
                  THEN Append(all_changes,
                              [start |-> ref.start, end |-> ref.end,
                               new |-> mapping[mi].new])
                  ELSE all_changes
        yes == yes_flag \/ key = "a"
        m == IF ri < Len(references) THEN mi
             ELSE NextClass(content, mapping, mi + 1)
    IN  /\ IF choice = "s"
           THEN SkipFile
           ELSE IF m > Len(mapping)
                THEN EndOfLoops(isChanged, queued, yes)
                ELSE /\ changed' = isChanged
                     /\ all_changes' = queued
                     /\ yes_flag' = yes
                     /\ mi' = m
                     /\ references' =
                            IF m = mi THEN references
                            ELSE find_class_references(content, mapping[m].old)
                     /\ ri' = IF m = mi THEN ri + 1 ELSE 1
                     /\ UNCHANGED <<content, original_content, ci, pc, mainVars>>
        /\ UNCHANGED <<auditVars, replacerVars, inputVars, disk, bak, run, run_disk, disk0>>

\* An occurrence decided by --all-yes, by accept-all or by --dry-run.
AutoDecide ==
    /\ pc = "decide"
    /\ AutoChoice(args, yes_flag) # "prompt"
    /\ Handle(AutoChoice(args, yes_flag))
    /\ io' = io

\* An occurrence decided by the operator: prompt returns y, n, s or a.
Prompt(key) ==
    /\ pc = "decide"
    /\ AutoChoice(args, yes_flag) = "prompt"
    /\ io' = Append(io, Event("prompt", path, key))
    /\ Handle(key)

\* One turn of the loop over the sorted all_changes.
Splice ==
    /\ pc = "splice"
    /\ content' = SpliceOne(content, all_changes[ci])
    /\ ci' = ci + 1
    /\ pc' = IF ci < Len(all_changes) THEN "splice"
             ELSE IF args.no_backup THEN "write" ELSE "backup"
    /\ UNCHANGED <<auditVars, replacerVars, inputVars, disk, bak, run, mainVars, original_content,
                   changed, all_changes, yes_flag, mi, references, ri, io,
                   run_disk, disk0>>

\* The copy taken after the write: the .bak gets the rewritten text.
BackupAfterWrite ==
    /\ pc = "backup"
    /\ bak' = [bak EXCEPT ![path] = content]
    /\ io' = Append(io, Event("backup", path, ""))
    /\ pc' = "write"
    /\ UNCHANGED <<auditVars, replacerVars, inputVars, disk, run, mainVars, fileVars, run_disk, disk0>>

\* copy2(path, str(path) + ".bak")
Backup ==
    /\ pc = "backup"
    /\ bak' = [bak EXCEPT ![path] = disk[path]]
    /\ io' = Append(io, Event("backup", path, ""))
    /\ pc' = "write"
    /\ UNCHANGED <<auditVars, replacerVars, inputVars, disk, run, mainVars, fileVars, run_disk, disk0>>

\* path.write_text(content) and return changed.
Write ==
    /\ pc = "write"
    /\ disk' = [disk EXCEPT ![path] = content]
    /\ io' = Append(io, Event("write", path, ""))
    /\ ReturnFrom(changed)
    /\ UNCHANGED <<auditVars, replacerVars, inputVars, bak, run, run_disk, disk0>>

Keys == {"y", "n", "s", "a"}

Next ==
    \/ LoadMapping
    \/ StartFile
    \/ AutoDecide
    \/ \E key \in Keys : Prompt(key)
    \/ Splice
    \/ Backup
    \/ Write
    \/ Exit
    \/ Rerun

Spec == Init /\ [][Next]_vars

(***************************************************************************)
(* A second specification: one file, texts built from every reference      *)
(* dialect, for the properties of the scanner and of the splice            *)
(***************************************************************************)

\* The dialects a class name is written in: what precedes the opening
\* quote, the quote, and what follows the closing quote.
Dialect(pre, quote, post) == [pre |-> pre, quote |-> quote, post |-> post]
Dialects ==
    { Dialect("className=", "\"", ""),
      Dialect("<a class=", "'", ">"),
      Dialect("el.className = ", "\"", ";"),
      Dialect("className={", Backtick, "}"),
      Dialect("el.classList.add(", "\"", ")"),
      Dialect("document.querySelector(", "\"", ")"),
      Dialect("el.closest(", "'", ")"),
      Dialect("getElementsByClassName(", "\"", ")"),
      Dialect("const sel = ", "\"", ";"),
      Dialect("className=", "\"", " id=\"xy-primary\"") }

\* The values between the quotes.
Values ==
    { "btn", "btn-primary", "btn primary", "primary btn", "btn btn",
      ".btn", ".btn-primary", "tab" }

Statement(d, v) == d.pre \o d.quote \o v \o d.quote \o d.post

\* One statement in every dialect with every value, and two-statement
\* texts.
ScanTexts ==
    { Statement(d, v) : d \in Dialects, v \in Values }
    \cup { Statement(Dialect("<a class=", "\"", ">"), v)
             \o "\n" \o Statement(Dialect("el.classList.remove(", "'", ");"), w) :
           v \in Values, w \in Values }

\* With one file: the operator is asked, or --all-yes; backups are made.
ScanArgs == [dry_run : {FALSE}, all_yes : BOOLEAN, no_backup : {FALSE}]

ScanMappings ==
    { <<Pair("btn", "button")>>,
      <<Pair("btn", "ok")>>,
      <<Pair("btn-primary", "btn")>>,
      <<Pair("btn", "button"), Pair("primary", "main")>>,
      <<Pair("btn", "tab"), Pair("tab", "nav")>>,
      <<Pair("btn", "button"), Pair("button", "ok")>> }

InitScan == InitWith({<<1>>}, ScanTexts, ScanArgs, ScanMappings)

SpecScan == InitScan /\ [][Next]_vars

(***************************************************************************)
(* A third specification: runs that an error ends.  No try block of        *)
(* process_file or main catches an OSError of read_text, copy2 or          *)
(* write_text, or an error of getch in prompt: the run ends where it is.   *)
(***************************************************************************)

Abort ==
    /\ \/ pc = "next_file" /\ fi <= Len(files)
       \/ pc = "decide" /\ AutoChoice(args, yes_flag) = "prompt"
       \/ pc \in {"backup", "write"}
    /\ pc' = "aborted"
    /\ exit_status' = 1
    /\ UNCHANGED <<auditVars, replacerVars, inputVars, disk, bak, run, mapping, fi,
                   any_changes, global_yes, fileVars, io, run_disk, disk0>>

NextAbort ==
    \/ Next
    \/ Abort

\* Runs that write: the operator is asked, or --all-yes; with backups and
\* without.
AbortArgs == [dry_run : {FALSE}, all_yes : BOOLEAN, no_backup : BOOLEAN]

AbortTexts == {"className=\"btn\"", "const n = 1;"}

InitAbort ==
    InitWith({[k \in 1 .. NumFiles |-> k]}, AbortTexts, AbortArgs,
             {<<Pair("btn", "ok")>>})

SpecAbort == InitAbort /\ [][NextAbort]_vars

(***************************************************************************)
(* css_audit.py: main                                                      *)
(***************************************************************************)

\* The renamer is not running.
NoRenamer ==
    /\ args = [dry_run |-> FALSE, all_yes |-> FALSE, no_backup |-> FALSE]
    /\ raw_mapping = <<>>
    /\ files = <<>>
    /\ disk = <<>>
    /\ bak = <<>>
    /\ run = 1
    /\ pc = "off"
    /\ mapping = <<>>
    /\ fi = 0
    /\ any_changes = FALSE
    /\ global_yes = FALSE
    /\ exit_status = NoStatus
    /\ IdleFile
    /\ io = <<>>
    /\ run_disk = <<>>
    /\ disk0 = <<>>

\* A source file: its text, whether its name ends in .html or .htm, and the
\* class attributes of the tags BeautifulSoup finds in it.
Source(text, is_html, tag_classes) ==
    [text |-> text, is_html |-> is_html, tag_classes |-> tag_classes,
     readable |-> TRUE]

\* A path that open() raises an error for.
UnreadableSource ==
    [text |-> "", is_html |-> FALSE, tag_classes |-> {}, readable |-> FALSE]

\* An audit of the stylesheets of cssSeqs over the source files of srcs,
\* named by the patterns of htmlSeqs.
InitAuditWith(cssSeqs, srcs, htmlSeqs) ==
    /\ NoRenamer
    /\ NoReplacer
    /\ css_args \in cssSeqs
    /\ src \in srcs
    /\ html_args \in htmlSeqs
    /\ apc = "css"
    /\ ai = 1
    /\ heap = <<>>
    /\ class_map = <<>>
    /\ processed_files = <<>>
    /\ labels = <<>>
    /\ duplicates = <<>>

auditInputs == <<css_args, html_args, src>>

\* main, lines 576 to 584: one stylesheet.  The open() of
\* extract_classes_from_css is outside its try block and main has none
\* around the call: an error of open() ends the run.
ProcessCss ==
    /\ apc = "css"
    /\ ai <= Len(css_args)
    /\ IF css_args[ai].readable
       THEN /\ \E st \in {MergeFile([heap |-> heap, map |-> class_map],
                                    css_args[ai])} :
                   /\ heap' = st.heap
                   /\ class_map' = st.map
            /\ ai' = ai + 1
            /\ apc' = apc
       ELSE /\ apc' = "aborted"
            /\ UNCHANGED <<heap, class_map, ai>>
    /\ UNCHANGED <<renamerVars, replacerVars, auditInputs, processed_files, labels,
                   duplicates>>

\* processed_files.extend(matching_files) for every pattern.
RECURSIVE Extended(_)
Extended(matches) ==
    IF matches = <<>> THEN <<>> ELSE Head(matches) \o Extended(Tail(matches))

\* processed_files[:3], the files debug_extract_from_file opens.
sample_files(matched) == SubSeq(matched, 1, Min({3, Len(matched)}))

\* main, lines 588 to 613: the patterns expanded and the sample files
\* opened, with no try block around.
Glob ==
    /\ apc = "css"
    /\ ai > Len(css_args)
    /\ processed_files' = Extended(html_args)
    /\ apc' = IF \A f \in Range(sample_files(Extended(html_args))) :
                     src[f].readable
              THEN "usage" ELSE "aborted"
    /\ ai' = 1
    /\ UNCHANGED <<renamerVars, replacerVars, auditInputs, heap, class_map, labels,
                   duplicates>>

\* used_classes of the file at hand; an error of the extraction is caught
\* by main (lines 621 to 622) and nothing is counted.
used_classes ==
    LET file == src[processed_files[ai]]
    IN  IF file.readable
        THEN extract_classes_from_html_js(file.text, file.is_html,
                                          file.tag_classes)
        ELSE {}

\* Every class of used is counted, with a record or without.
CountedUndeclared(map, used) ==
    [c \in DOMAIN map \cup used |->
        IF c \in DOMAIN map
        THEN IF c \in used THEN [map[c] EXCEPT !.count = @ + 1] ELSE map[c]
        ELSE [declarations |-> 0, files |-> {}, count |-> 1, selectors |-> {}]]

\* class_map[class_name]['count'] += 1 for the classes of used that have a
\* record.
Counted(map, used) ==
    [c \in DOMAIN map |->
        IF c \in used THEN [map[c] EXCEPT !.count = @ + 1] ELSE map[c]]

\* main, lines 615 to 620: one source file.
ScanFile ==
    /\ apc = "usage"
    /\ ai <= Len(processed_files)
    /\ class_map' = Counted(class_map, used_classes)
    /\ ai' = ai + 1
    /\ UNCHANGED <<renamerVars, replacerVars, auditInputs, apc, heap, processed_files,
                   labels, duplicates>>

\* main, lines 625 to 631: one class.  The classes are taken in the order
\* of their names; a round touches the record of its class only.  Its sets
\* become lists in the order their iteration yields the elements;
\* classify_risk and guess_component iterate the sets in that order.
\* Classes that hold the same set object see the same order.
Classify ==
    /\ apc = "usage"
    /\ ai > Len(processed_files)
    /\ DOMAIN labels # DOMAIN class_map
    /\ LET class_name == Least(DOMAIN class_map \ DOMAIN labels)
           data == class_map[class_name]
       IN  \E declarations \in Orders(heap[data.declarations]),
              selectors \in Orders(data.selectors) :
              /\ \A c \in DOMAIN labels :
                     class_map[c].declarations = data.declarations
                         => labels[c].declarations = declarations
              /\ labels' = labels @@
                     (class_name :>
                         [risk |-> classify_risk(declarations),
                          component |-> guess_component(class_name, selectors),
                          declarations |-> declarations,
                          selectors |-> selectors])
    /\ UNCHANGED <<renamerVars, replacerVars, auditInputs, apc, ai, heap, class_map,
                   processed_files, duplicates>>

\* main, line 634: the duplicate groups.
Report ==
    /\ apc = "usage"
    /\ ai > Len(processed_files)
    /\ DOMAIN labels = DOMAIN class_map
    /\ duplicates' = find_duplicate_rules(
                         [c \in DOMAIN labels |-> labels[c].declarations])
    /\ apc' = "done"
    /\ UNCHANGED <<renamerVars, replacerVars, auditInputs, ai, heap, class_map,
                   processed_files, labels>>

NextAudit ==
    \/ ProcessCss
    \/ Glob
    \/ ScanFile
    \/ Classify
    \/ Report

(***************************************************************************)
(* Specifications of the audit                                             *)
(***************************************************************************)

Stylesheet(name, rules) ==
    [name |-> name, rules |-> rules, readable |-> TRUE]

\* A stylesheet that open() raises an error for.
UnreadableSheet(name) == [name |-> name, rules |-> <<>>, readable |-> FALSE]

\* The stylesheets of at most two rules of the set rules.
SheetsOf(name, rules) ==
    {Stylesheet(name, rs) :
        rs \in {<<>>} \cup {<<r>> : r \in rules}
                  \cup {<<r, q>> : r, q \in rules}}

\* One source file that uses a class, named by one pattern.
OneSource == {<<Source("className=\"btn\"", FALSE, {})>>}
OnePattern == {<<<<1>>>>}

\* Rules for the merge: a compound selector, a selector list with a
\* selector that names no class and one with a pseudo-class, a rule that is
\* not a style rule, and a selector list over two classes.
MergeRules ==
    { Rule(STYLE_RULE, <<".btn.primary">>, <<Property("color", "red")>>),
      Rule(STYLE_RULE, <<"a", ".btn:hover">>,
           <<Property("margin-top", "4px")>>),
      Rule(MEDIA_RULE, <<".tab">>, <<Property("display", "none")>>),
      Rule(STYLE_RULE, <<".tab", ".btn">>,
           <<Property("color", "red"),
             [name |-> "", value |-> "", comment |-> TRUE]>>) }

\* One stylesheet, or two.
MergeArgs ==
    {<<s>> : s \in SheetsOf("a.css", MergeRules)}
        \cup {<<s, t>> : s \in SheetsOf("a.css", MergeRules),
                         t \in SheetsOf("b.css", MergeRules)}

InitCss == InitAuditWith(MergeArgs, OneSource, OnePattern)

SpecCss == InitCss /\ [][NextAudit]_vars

\* Rules for the risk tiers and the duplicate groups: the same two
\* declarations under two classes, declarations outside both tiers, of the
\* MEDIUM set and of the HIGH set, and two pairs of declarations of
\* animation-name, border and order.
TierRules ==
    { Rule(STYLE_RULE, <<".card">>,
           <<Property("color", "red"), Property("margin-top", "4px")>>),
      Rule(STYLE_RULE, <<".tile">>,
           <<Property("margin-top", "4px"), Property("color", "red")>>),
      Rule(STYLE_RULE, <<".note">>, <<Property("color", "red")>>),
      Rule(STYLE_RULE, <<".gap">>, <<Property("margin-top", "4px")>>),
      Rule(STYLE_RULE, <<".row">>,
           <<Property("margin-top", "4px"), Property("color", "red"),
             Property("display", "flex")>>),
      Rule(STYLE_RULE, <<".fade">>,
           <<Property("animation-name", "a"), Property("border", "0")>>),
      Rule(STYLE_RULE, <<".sort">>,
           <<Property("animation-name", "ab"), Property("order", "0")>>) }

InitTier ==
    InitAuditWith({<<s>> : s \in SheetsOf("a.css", TierRules)}, OneSource,
                  OnePattern)

SpecTier == InitTier /\ [][NextAudit]_vars

\* The stylesheet of the usage scans: btn, primary and btn-primary are
\* declared, tab is not.
UsageSheet ==
    Stylesheet("a.css",
        <<Rule(STYLE_RULE, <<".btn">>, <<Property("color", "red")>>),
          Rule(STYLE_RULE, <<".btn-primary", ".primary">>,
               <<Property("display", "flex")>>)>>)

\* Source files: a class named twice, classList.remove, a kebab-case
\* literal by itself, an HTML file, a selector string, no class at all,
\* classList.add and markup in a template literal.
UsageSources ==
    { Source("className=\"btn\" class=\"btn\"", FALSE, {}),
      Source("el.classList.remove(\"btn\")", FALSE, {}),
      Source("const cls = \"btn-primary\";", FALSE, {}),
      Source("<a class=\"btn tab\">", TRUE, {"btn", "tab"}),
      Source("document.querySelector(\".btn\")", FALSE, {}),
      Source("const n = 1;", FALSE, {}),
      Source("el.classList.add('primary')", FALSE, {}),
      Source(Backtick \o "<a class=\"btn ${x}\">" \o Backtick, FALSE, {}) }

\* The patterns: one that names every file, and with it one that names the
\* first file again.
UsagePatterns ==
    LET every == [k \in 1 .. NumFiles |-> k]
    IN  { <<every>>, <<every, <<1>>>> }

InitUsage ==
    InitAuditWith({<<UsageSheet>>}, [1 .. NumFiles -> UsageSources],
                  UsagePatterns)

SpecUsage == InitUsage /\ [][NextAudit]_vars

\* Rules for the component guess: class names of the modal family with a
\* plural type, with a singular type, with no type, and an exact key of the
\* component table.
ComponentRules ==
    { Rule(STYLE_RULE, <<".accounts-modal-title">>,
           <<Property("color", "red")>>),
      Rule(STYLE_RULE, <<".users-modal-list">>, <<Property("color", "red")>>),
      Rule(STYLE_RULE, <<".error-modal-title">>, <<Property("color", "red")>>),
      Rule(STYLE_RULE, <<".wide-modal-box">>, <<Property("color", "red")>>),
      Rule(STYLE_RULE, <<".accounts-modal">>, <<Property("color", "red")>>) }

InitComponent ==
    InitAuditWith({<<s>> : s \in SheetsOf("a.css", ComponentRules)},
                  OneSource, OnePattern)

SpecComponent == InitComponent /\ [][NextAudit]_vars

\* Stylesheets for the failures: two that parse, one with a rule that
\* raises an error after a rule that was read, and one that cannot be
\* opened.
FailureSheets(name) ==
    { Stylesheet(name,
          <<Rule(STYLE_RULE, <<".btn">>, <<Property("color", "red")>>)>>),
      Stylesheet(name,
          <<Rule(STYLE_RULE, <<".tab">>, <<Property("display", "none")>>)>>),
      Stylesheet(name,
          <<Rule(STYLE_RULE, <<".btn">>, <<Property("margin", "0")>>),
            Rule(FAULTY_RULE, <<>>, <<>>),
            Rule(STYLE_RULE, <<".tab">>, <<Property("margin", "0")>>)>>),
      UnreadableSheet(name) }

\* Four source files, each one that names btn or one that cannot be opened,
\* named by one pattern.
FailureSources ==
    [1 .. 4 -> {Source("className=\"btn\"", FALSE, {}), UnreadableSource}]

InitFailure ==
    InitAuditWith({<<s, t>> : s \in FailureSheets("a.css"),
                              t \in FailureSheets("b.css")},
                  FailureSources, {<<<<1, 2, 3, 4>>>>})

SpecFailure == InitFailure /\ [][NextAudit]_vars

(***************************************************************************)
(* css_replacer.py: load_class_mapping, generate_deprecated_css and main   *)
(***************************************************************************)

\* load_class_mapping: json.load, every key kept.
load_class_mapping(file) == file

\* The arrow U+2192 of line 110.
Arrow == "->"

\* The two strings written before the loop.
Preamble ==
    <<"/* Respond SPA Deprecated Classes - Auto-generated */\n",
      "/* This file maintains backward compatibility */\n\n">>

\* declarations of the loop body: the ones the audit has for old_class.
known_declarations(audit_data, old_class) ==
    IF old_class \in DOMAIN audit_data
    THEN audit_data[old_class].declarations
    ELSE <<>>

\* The strings one round of the loop writes.
Block(old_class, new_class, declarations) ==
    <<"/* " \o old_class \o " " \o Arrow \o " " \o new_class \o " */\n",
      "." \o old_class \o " {\n">>
      \o [k \in 1 .. Len(declarations) |-> "  " \o declarations[k] \o ";\n"]
      \o (IF declarations # <<>>
          THEN <<"  /* Original declarations above, forwarding below */\n">>
          ELSE <<>>)
      \o <<"  /* @deprecated Use ." \o new_class \o " instead */\n",
           "}\n\n">>

\* main, lines 132 to 148.  The files of --files are of neither kind the
\* loop handles, so the loop changes none.
LoadClassMapping ==
    /\ rpc = "load"
    /\ class_mapping' = load_class_mapping(mapping_file)
    /\ rpc' = "generate"
    /\ UNCHANGED <<renamerVars, auditVars, mapping_file, audit_file, ki,
                   deprecated_css>>

\* generate_deprecated_css up to its loop.
WritePreamble ==
    /\ rpc = "generate"
    /\ deprecated_css' = Preamble
    /\ ki' = 1
    /\ rpc' = "blocks"
    /\ UNCHANGED <<renamerVars, auditVars, mapping_file, audit_file,
                   class_mapping>>

\* One round of "for old_class, new_class in class_mapping.items()".
WriteBlock ==
    /\ rpc = "blocks"
    /\ ki <= Len(class_mapping)
    /\ deprecated_css' =
           deprecated_css
               \o Block(class_mapping[ki].old, class_mapping[ki].new,
                        known_declarations(audit_file, class_mapping[ki].old))
    /\ ki' = ki + 1
    /\ UNCHANGED <<renamerVars, auditVars, mapping_file, audit_file, rpc,
                   class_mapping>>

\* The file is closed and main ends.
Finish ==
    /\ rpc = "blocks"
    /\ ki > Len(class_mapping)
    /\ rpc' = "done"
    /\ UNCHANGED <<renamerVars, auditVars, mapping_file, audit_file,
                   class_mapping, ki, deprecated_css>>

NextReplacer ==
    \/ LoadClassMapping
    \/ WritePreamble
    \/ WriteBlock
    \/ Finish

\* The mapping files: up to two of a comment key and three classes.
MappingPairs ==
    {CommentPair, Pair("btn", "button"), Pair("tab", "nav"),
     Pair("primary", "main")}

MappingFiles ==
    {<<>>} \cup {<<x>> : x \in MappingPairs}
           \cup {p \in MappingPairs \X MappingPairs : p[1] # p[2]}

\* The audits: of no class, of btn with two declarations, of btn with
\* none and tab with one.
AuditRecord(declarations) == [declarations |-> declarations]
AuditFiles ==
    { <<>>,
      "btn" :> AuditRecord(<<"color: red", "margin: 0">>),
      "btn" :> AuditRecord(<<>>) @@ "tab" :> AuditRecord(<<"display: none">>) }

InitReplacer ==
    /\ NoRenamer
    /\ NoAudit
    /\ mapping_file \in MappingFiles
    /\ audit_file \in AuditFiles
    /\ rpc = "load"
    /\ class_mapping = <<>>
    /\ ki = 0
    /\ deprecated_css = <<>>

SpecReplacer == InitReplacer /\ [][NextReplacer]_vars

(***************************************************************************)
(* Properties                                                              *)
(***************************************************************************)

Running == pc \in {"decide", "splice", "backup", "write"}

\* Two spans [start, end) share an offset.
Overlap(x, y) == x.start < y.end /\ y.start < x.end

PairwiseDisjoint(spans) ==
    \A i, j \in 1 .. Len(spans) : i < j => ~Overlap(spans[i], spans[j])

\* The original text from offset i on with every span of edits replaced by
\* its replacement, read from left to right.
RECURSIVE Rebuild(_, _, _)
Rebuild(orig, edits, i) ==
    IF i >= Len(orig) THEN ""
    ELSE IF \E k \in 1 .. Len(edits) : edits[k].start = i
         THEN LET k == CHOOSE k \in 1 .. Len(edits) : edits[k].start = i
              IN  edits[k].new \o Rebuild(orig, edits, edits[k].end)
         ELSE Slice(orig, i, i + 1) \o Rebuild(orig, edits, i + 1)

\* The number of offsets of text at which the string name stands.
Occurrences(text, name) ==
    Cardinality({i \in 0 .. Len(text) : StartsAt(Chars(text), i, Chars(name))})

\* Some mapped class has a reference in text.
HasReference(text) ==
    \E m \in 1 .. Len(mapping) :
        find_class_references(text, mapping[m].old) # <<>>

\* C1: whenever an edit is spliced, the buffer still holds at the edit's
\* span the old class name that was located there in the original content.
C1_EditsAtValidOffsets ==
    pc = "splice" =>
        LET c == all_changes[ci]
        IN  Slice(content, c.start, c.end)
                = Slice(original_content, c.start, c.end)

\* C2: find_class_references returns no two references whose spans are equal
\* or overlap, so no span is queued for splicing twice.
C2_NoOverlappingReferences ==
    /\ pc = "decide" => PairwiseDisjoint(references)
    /\ Running => PairwiseDisjoint(all_changes)

\* C3: when the accepted edits are pairwise disjoint, the buffer after the
\* descending splice is the original content with every span replaced by
\* its own replacement and every other character unchanged and in place.
C3_ReverseSpliceRebuilds ==
    (pc \in {"backup", "write"} /\ PairwiseDisjoint(all_changes))
        => content = Rebuild(original_content, all_changes, 0)

\* Two disjoint edits, one longer and one shorter than its span, have been
\* spliced.
C3_Witness ==
    /\ pc = "write"
    /\ Len(all_changes) >= 2
    /\ PairwiseDisjoint(all_changes)
    /\ \E k \in 1 .. Len(all_changes) :
           Len(all_changes[k].new) > all_changes[k].end - all_changes[k].start
    /\ \E k \in 1 .. Len(all_changes) :
           Len(all_changes[k].new) < all_changes[k].end - all_changes[k].start
    /\ content = Rebuild(original_content, all_changes, 0)

\* C4: after skip-file is answered for a file, the file on disk is as it
\* was at the start of the run, the run has neither backed it up nor
\* written it, and nothing more of the file is prompted or processed.
C4_SkipFileLeavesFileUntouched ==
    \A k \in 1 .. Len(io) :
        io[k].key = "s" =>
            LET f == io[k].file
            IN  /\ disk[f] = run_disk[f]
                /\ \A j \in 1 .. Len(io) :
                       io[j].file = f => io[j].op \in {"read", "prompt"}
                /\ \A j \in 1 .. Len(io) : j > k => io[j].file # f
                /\ ~(Running /\ path = f)

\* Skip-file was answered after an occurrence of the same file had been
\* accepted.
C4_Witness ==
    \E k \in 1 .. Len(io) :
        /\ io[k].key = "s"
        /\ \E j \in 1 .. k - 1 : io[j].file = io[k].file /\ io[j].key = "y"
        /\ disk[io[k].file] = run_disk[io[k].file]

\* C5: once accept-all is answered, the operator is not prompted again in
\* the run, in the current file or in a later one.
C5_AcceptAllSilencesRun ==
    \A k \in 1 .. Len(io) :
        io[k].key = "a" =>
            \A j \in 1 .. Len(io) : j > k => io[j].op # "prompt"

\* C6: under --dry-run, whatever the other flags, the run prompts for
\* nothing, writes no file and creates no backup.
C6_DryRunTouchesNothing ==
    args.dry_run =>
        /\ \A k \in 1 .. Len(io) : io[k].op = "read"
        /\ disk = disk0
        /\ \A f \in DOMAIN bak : bak[f] = NoFile

\* A dry run with --all-yes and backups enabled accepted an occurrence and
\* ended.
C6_Witness ==
    /\ args.dry_run
    /\ args.all_yes
    /\ ~args.no_backup
    /\ pc = "done"
    /\ any_changes
    /\ disk = disk0

\* C7: a dry run that went through its files ends with a non-zero status
\* exactly when a reference to a mapped class was located in some file.
C7_DryRunExitStatus ==
    (pc = "done" /\ args.dry_run /\ ~load_mapping(raw_mapping).exits)
        => ((exit_status # 0) <=> \E f \in DOMAIN disk0 : HasReference(disk0[f]))

\* C8: with backups enabled, when a file is about to be written its .bak
\* already holds the file as it is on disk, and every write of the run comes
\* right after the backup of the same file.
C8_BackupBeforeWrite ==
    ~args.no_backup =>
        /\ pc = "write" =>
               /\ bak[path] = disk[path]
               /\ io[Len(io)] = Event("backup", path, "")
        /\ \A k \in 1 .. Len(io) :
               io[k].op = "write" =>
                   /\ k > 1
                   /\ io[k - 1] = Event("backup", io[k].file, "")
                   /\ bak[io[k].file] = run_disk[io[k].file]

\* A changed file has been written with backups enabled.
C8_Witness ==
    /\ ~args.no_backup
    /\ \E k \in 1 .. Len(io) :
           /\ io[k].op = "write"
           /\ disk[io[k].file] # run_disk[io[k].file]
           /\ bak[io[k].file] = run_disk[io[k].file]

\* C9: after a run with --all-yes and the mapping {a: b}, a # b, over a text
\* in which a occurs once, a second scan finds no reference to a, and the
\* second run queues no edit and leaves the file as the first run wrote it.
C9_RewriteIdempotent ==
    (/\ run = 2
     /\ args.all_yes /\ ~args.dry_run
     /\ Len(raw_mapping) = 1
     /\ ~IsCommentKey(raw_mapping[1])
     /\ raw_mapping[1].old # raw_mapping[1].new
     /\ Len(files) = 1
     /\ Occurrences(disk0[files[1]], raw_mapping[1].old) = 1)
        => /\ find_class_references(run_disk[files[1]], raw_mapping[1].old) = <<>>
           /\ all_changes = <<>>
           /\ disk = run_disk

\* C10: for class btn, className="btn-primary" yields no reference and
\* className="btn primary" exactly one; a reported token is whole (no word
\* character or hyphen next to it) and is reported once.
C10_WordBoundaryExtraction ==
    (pc = "decide" /\ mapping[mi].old = "btn") =>
        /\ content # "className=\"btn-primary\""
        /\ content = "className=\"btn primary\"" => Len(references) = 1
        /\ \A k \in 1 .. Len(references) :
               /\ CharAt(Chars(content), references[k].start - 1)
                      \notin WordChars \cup {"-"}
               /\ CharAt(Chars(content), references[k].end)
                      \notin WordChars \cup {"-"}
               /\ \A j \in 1 .. Len(references) :
                      j # k => <<references[j].start, references[j].end>>
                                   # <<references[k].start, references[k].end>>

\* C20: a run whose mapping is absent, empty or holds nothing but comment
\* keys reads no file, prompts for nothing, writes nothing and ends with
\* an error status.
C20_InvalidMappingIsFatal ==
    (\A k \in 1 .. Len(raw_mapping) : IsCommentKey(raw_mapping[k]))
        => /\ io = <<>>
           /\ pc = "done" => exit_status = 1

\* The stylesheets are merged and no source file is scanned yet.
Merged == apc = "usage" /\ ai = 1

\* The model the audit holds.
Model == [heap |-> heap, map |-> class_map]

\* The sequences that hold the elements of seq in another order, or the same.
Permuted(seq) ==
    {[k \in 1 .. Len(seq) |-> seq[o[k]]] : o \in Orders(1 .. Len(seq))}

\* The stylesheets css in any order, the rules of each in any order.
Rearranged(css) ==
    UNION {
        {[k \in 1 .. Len(p) |-> Stylesheet(p[k].name, r[k])] :
            r \in {q \in [1 .. Len(p) ->
                             UNION {Permuted(p[k].rules) : k \in 1 .. Len(p)}] :
                      \A k \in 1 .. Len(p) : q[k] \in Permuted(p[k].rules)}} :
        p \in Permuted(css)}

\* C11: the declaration set recorded for every class is the same whatever
\* order the stylesheets and the rules of each are processed in, and
\* processing the rules of a stylesheet again changes no class's set.
C11_MergeCommutativeIdempotent ==
    Merged =>
        /\ \A css \in Rearranged(css_args) :
               DeclarationSets(MergeFiles(EmptyModel, css))
                   = DeclarationSets(Model)
        /\ \A k \in 1 .. Len(css_args) :
               DeclarationSets(MergeFile(Model, css_args[k]))
                   = DeclarationSets(Model)

\* The style rules of the stylesheets that have a selector with the class
\* token c.
RulesNaming(c) ==
    {r \in UNION {Range(css_args[k].rules) : k \in 1 .. Len(css_args)} :
        /\ r.type = STYLE_RULE
        /\ \E j \in 1 .. Len(r.selectorList) :
               c \in Range(class_matches(r.selectorList[j]))}

\* C12: every declaration recorded for a class c comes from a style rule
\* with a selector that contains the class token c.
C12_DeclarationsFromMatchingRules ==
    \A c \in DOMAIN class_map :
        heap[class_map[c].declarations]
            \subseteq UNION {rule_declarations(r) : r \in RulesNaming(c)}

\* Stylesheet k has been merged.
Processed(k) == apc # "css" \/ k < ai

\* C13: a style rule adds each of its declarations to the declaration set
\* of every class token found in each of its selectors.
C13_CompoundSelectorLeakage ==
    \A k \in 1 .. Len(css_args) :
        Processed(k) =>
            \A r \in Range(css_args[k].rules) :
                r.type = STYLE_RULE =>
                    \A j \in 1 .. Len(r.selectorList) :
                        \A c \in Range(class_matches(r.selectorList[j])) :
                            /\ c \in DOMAIN class_map
                            /\ rule_declarations(r)
                                   \subseteq heap[class_map[c].declarations]

\* A rule with the selector .btn.primary has been merged and both classes
\* hold its declaration.
C13_Witness ==
    /\ Merged
    /\ \E k \in 1 .. Len(css_args) :
           \E r \in Range(css_args[k].rules) :
               /\ r.type = STYLE_RULE
               /\ r.selectorList = <<".btn.primary">>
               /\ class_matches(".btn.primary") = <<"btn", "primary">>
               /\ "color: red" \in rule_declarations(r)
    /\ "color: red" \in heap[class_map["btn"].declarations]
    /\ "color: red" \in heap[class_map["primary"].declarations]

\* The classes c and d are in one duplicate group.
Grouped(c, d) == \E h \in DOMAIN duplicates : {c, d} \subseteq duplicates[h]

\* C14: two distinct classes are in the same duplicate group if and only if
\* their declaration sets are equal as sets of declaration strings, and
\* every reported group has at least two members.
C14_DuplicatesIffEqualSets ==
    apc = "done" =>
        /\ \A c, d \in DOMAIN class_map :
               c # d =>
                   (Grouped(c, d) <=>
                       heap[class_map[c].declarations]
                           = heap[class_map[d].declarations])
        /\ \A h \in DOMAIN duplicates : Cardinality(duplicates[h]) >= 2

\* The properties the style rules of the stylesheets declare for class c.
DeclaredProperties(c) ==
    UNION {{r.style[j].name :
               j \in {i \in 1 .. Len(r.style) : ~r.style[i].comment}} :
           r \in RulesNaming(c)}

\* name is a member of the set props or a member followed by a dash and
\* more.
MemberOrVariant(name, props) ==
    \E p \in props :
        \/ name = p
        \/ /\ Len(name) > Len(p)
           /\ SubSeq(name, 1, Len(p) + 1) = p \o "-"

\* C15: a class with at least one declaration whose property is a member,
\* or a dash-suffixed variant of a member, of the HIGH-risk set is
\* classified HIGH, whatever its other declarations are and whatever order
\* the set is iterated in.
C15_HighRiskDominates ==
    \A c \in DOMAIN labels :
        (\E name \in DeclaredProperties(c) :
             MemberOrVariant(name, HIGH_RISK_PROPS))
            => labels[c].risk = "HIGH"

\* A class is classified HIGH whose set was iterated from a declaration of
\* neither tier over a dash-suffixed variant to a member of the HIGH set.
C15_Witness ==
    \E c \in DOMAIN labels :
        /\ labels[c].declarations
               = <<"color: red", "margin-top: 4px", "display: flex">>
        /\ DeclaredProperties(c) = {"color", "margin-top", "display"}
        /\ labels[c].risk = "HIGH"

\* The properties of class c that one of the two tiers takes account of.
RiskRelevant(c) ==
    {name \in DeclaredProperties(c) :
        MemberOrVariant(name, HIGH_RISK_PROPS \cup MED_RISK_PROPS)}

\* C16: a class whose only risk-relevant properties are members of the
\* MEDIUM set is classified MEDIUM, as the class with the one declaration
\* margin-top: 4px is, and a class no declaration of which matches either
\* tier is classified LOW.
C16_MediumTier ==
    \A c \in DOMAIN labels :
        /\ (RiskRelevant(c) # {} /\ RiskRelevant(c) \subseteq MED_RISK_PROPS)
               => labels[c].risk = "MEDIUM"
        /\ labels[c].declarations = <<"margin-top: 4px">>
               => labels[c].risk = "MEDIUM"
        /\ RiskRelevant(c) = {} => labels[c].risk = "LOW"

\* A step that scans the source file at hand.
ScanStep == apc = "usage" /\ ai' = ai + 1

\* C17: the scan of one source file adds exactly 1 to the count of every
\* declared class detected in the file and nothing to the count of any
\* other class, creates no record and changes no other field.
C17_UsageCountedOncePerFile ==
    [][ScanStep =>
          /\ DOMAIN class_map' = DOMAIN class_map
          /\ \A c \in DOMAIN class_map :
                 class_map'[c] =
                     [class_map[c] EXCEPT
                         !.count = @ + IF c \in used_classes THEN 1 ELSE 0]
          /\ heap' = heap]_vars

\* The first file names the declared class btn twice and an HTML file
\* names the undeclared class tab; both are scanned and btn is counted
\* once for each.
C17_Witness ==
    /\ apc = "usage"
    /\ processed_files = <<1, 2>>
    /\ ai = 3
    /\ src[1].text = "className=\"btn\" class=\"btn\""
    /\ src[2].text = "<a class=\"btn tab\">"
    /\ extract_classes_from_html_js(src[2].text, TRUE, src[2].tag_classes)
           = {"btn", "tab"}
    /\ class_map["btn"].count = 2
    /\ "tab" \notin DOMAIN class_map

\* The source file at hand.
Scanned == src[processed_files[ai]]

\* The classes that the file at hand holds as a quoted kebab-case literal
\* and that no class attribute, className assignment or classList call of
\* the file names.
LiteralOnly ==
    literal_classes(Scanned.text)
        \ (assigned_classes(Scanned.text)
              \cup IF Scanned.is_html THEN Scanned.tag_classes ELSE {})

\* C18: the scan of a source file leaves the count of a declared class
\* unchanged when the class appears in the file solely as a free-standing
\* quoted kebab-case literal.
C18_CatchAllNotCounted ==
    [][ScanStep =>
          \A c \in DOMAIN class_map \cap LiteralOnly :
              class_map'[c].count = class_map[c].count]_vars

\* C19: for the source file at hand and every declared class c, the usage
\* scan of the audit takes the file for a user of c if and only if
\* find_class_references of the renamer returns a reference to c in it.
C19_ScanningModesAgree ==
    (apc = "usage" /\ ai <= Len(processed_files)) =>
        \A c \in DOMAIN class_map :
            c \in used_classes
                <=> find_class_references(Scanned.text, c) # <<>>

\* The references process_file goes through in text, class after class in
\* the order of the mapping.
RECURSIVE Occurrences_of(_, _, _)
Occurrences_of(text, mp, m) ==
    IF m > Len(mp) THEN <<>>
    ELSE find_class_references(text, mp[m].old)
             \o Occurrences_of(text, mp, m + 1)

\* The answers of the operator in the run, in order.
Answers ==
    LET prompts == SelectSeq(io, LAMBDA e : e.op = "prompt")
    IN  [k \in 1 .. Len(prompts) |-> prompts[k].key]

\* The growth of the text before offset i that the queued edits make.
RECURSIVE Shift(_, _)
Shift(edits, i) ==
    IF edits = <<>> THEN 0
    ELSE (IF Head(edits).start < i
          THEN Len(Head(edits).new) - (Head(edits).end - Head(edits).start)
          ELSE 0) + Shift(Tail(edits), i)

\* C26: when the file is about to be written, the token at the span of every
\* occurrence the operator rejected is as it was in the original content,
\* whatever was answered for the other prompts of the file.
C26_RejectLeavesOccurrence ==
    (pc = "write" /\ ~args.all_yes) =>
        LET occurrences == Occurrences_of(original_content, mapping, 1)
        IN  \A k \in 1 .. Len(Answers) :
                Answers[k] = "n" =>
                    LET r == occurrences[k]
                        d == Shift(all_changes, r.start)
                    IN  Slice(content, r.start + d, r.end + d)
                            = Slice(original_content, r.start, r.end)

\* The mapping is a chain {a: b, b: c}.
IsChain(mp) == Len(mp) = 2 /\ mp[1].new = mp[2].old

\* The edits that rename every reference of every mapped class in text.
RECURSIVE Renames(_, _, _)
Renames(text, mp, m) ==
    IF m > Len(mp) THEN <<>>
    ELSE LET refs == find_class_references(text, mp[m].old)
         IN  [k \in 1 .. Len(refs) |->
                 [start |-> refs[k].start, end |-> refs[k].end,
                  new |-> mp[m].new]]
                 \o Renames(text, mp, m + 1)

\* C27: while the classes of the mapping are scanned the buffer is the
\* original content and the references are those of the original content;
\* with a chained mapping {a: b, b: c} and every occurrence accepted, the
\* text about to be written is the original with each occurrence of a
\* replaced by b and each occurrence of b by c, and nothing renamed twice.
C27_LocatedAgainstOriginal ==
    /\ pc = "decide" =>
           /\ content = original_content
           /\ references
                  = find_class_references(original_content, mapping[mi].old)
    /\ (pc = "write" /\ args.all_yes /\ IsChain(mapping)) =>
           content
               = Rebuild(original_content,
                         Renames(original_content, mapping, 1), 0)

\* C29: with backups enabled, after any sequence of runs the .bak of a file
\* holds the content the file had before its first modification.
C29_BackupHoldsOriginal ==
    ~args.no_backup =>
        \A f \in DOMAIN bak : bak[f] # NoFile => bak[f] = disk0[f]

\* C30: the count of every class is at most the number of distinct source
\* files the patterns name, also when two patterns name the same file.
C30_CountBoundedByFiles ==
    apc \in {"usage", "done"} =>
        \A c \in DOMAIN class_map :
            class_map[c].count <= Cardinality(Range(processed_files))

\* Every record of the model st is in the model nx, with declarations,
\* files and selectors that hold at least what they held and a count that
\* is not less.
Grown(st, nx) ==
    \A c \in DOMAIN st.map :
        /\ c \in DOMAIN nx.map
        /\ st.heap[st.map[c].declarations]
               \subseteq nx.heap[nx.map[c].declarations]
        /\ st.map[c].files \subseteq nx.map[c].files
        /\ st.map[c].selectors \subseteq nx.map[c].selectors
        /\ st.map[c].count <= nx.map[c].count

\* C28: no step of the audit removes a class record, takes an element out
\* of its declarations, files or selectors, or lowers its count.
C28_RecordsOnlyGrow ==
    [][Grown(Model, [heap |-> heap', map |-> class_map'])]_vars

\* A class declared in two stylesheets has been merged and counted.
C28_Witness ==
    /\ apc = "usage"
    /\ ai = 2
    /\ "btn" \in DOMAIN class_map
    /\ class_map["btn"].files = {"a.css", "b.css"}
    /\ Cardinality(heap[class_map["btn"].declarations]) = 2
    /\ class_map["btn"].count = 1

\* The modal types the name holds that are part of no other modal type the
\* name holds.
MostSpecificTypes(name) ==
    LET held == {t \in Range(modal_types) : Contains(name, t)}
    IN  {t \in held : \A u \in held \ {t} : ~Contains(u, t)}

\* C24: a class whose name is no key of the component table and contains
\* modal gets the component of the most specific modal type its name holds
\* (AccountsModal, not AccountModal, for a name that holds accounts), and
\* Modal when its name holds no modal type.
C24_ModalInfixMostSpecific ==
    \A c \in DOMAIN labels :
        (/\ FirstKey(COMPONENT_MAP, LAMBDA key : key = Lower(c)) = 0
         /\ Contains(Lower(c), "modal"))
            => IF MostSpecificTypes(Lower(c)) = {}
               THEN labels[c].component = "Modal"
               ELSE labels[c].component
                        \in {ModalComponent(t) : t \in MostSpecificTypes(Lower(c))}

\* What the records of a model hold, but for the counts.
Records(st) ==
    [c \in DOMAIN st.map |->
        [declarations |-> st.heap[st.map[c].declarations],
         files |-> st.map[c].files,
         selectors |-> st.map[c].selectors]]

\* No rule of the stylesheet raises an error.
Parses(css_file) == \A k \in 1 .. Len(css_file.rules) :
                        css_file.rules[k].type # FAULTY_RULE

\* C21: when every stylesheet has been gone through, the model is the one
\* of the stylesheets that raised no error: a stylesheet with a rule that
\* raises one contributes nothing, not even the records of its earlier
\* rules, and the stylesheets after it are merged.
C21_ParseFailureContributesNothing ==
    apc \in {"usage", "done"} =>
        Records(Model) = Records(MergeFiles(EmptyModel,
                                            SelectSeq(css_args, Parses)))

\* The first stylesheet raised an error after its rule for btn was read and
\* the second one was merged.
C21_Witness ==
    /\ apc = "usage"
    /\ ~Parses(css_args[1])
    /\ css_args[1].rules[1].selectorList = <<".btn">>
    /\ Parses(css_args[2])
    /\ css_args[2].rules # <<>>
    /\ DOMAIN class_map = {"tab"}
    /\ class_map["tab"].files = {"b.css"}

\* C22: a stylesheet or source file that cannot be read never ends the run:
\* the audit goes on to the remaining files.
C22_ExtractionFailuresNeverAbort ==
    apc # "aborted"

\* The place of file f in the order main goes through the files.
Place(f) == CHOOSE k \in 1 .. Len(files) : files[k] = f

\* C23: the files are rewritten one at a time.  A step changes the content
\* and the backup of no file but the one process_file works on; every read,
\* prompt, backup and write of a file comes before the first of the next
\* file; and at every point of a run, also one that an error has ended,
\* every file after the current one is as it was when the run began.
C23_OneFileAtATime ==
    [][/\ \A f \in DOMAIN disk :
              (disk'[f] # disk[f] \/ bak'[f] # bak[f])
                  => (fi \in 1 .. Len(files) /\ f = files[fi])
       /\ \A i, j \in 1 .. Len(io') :
              i < j => Place(io'[i].file) <= Place(io'[j].file)
       /\ \A k \in 1 .. Len(files) :
              k > fi' => disk'[files[k]] = run_disk'[files[k]]]_vars

\* A run ended by an error at its second file after it had backed up and
\* rewritten the first: the first file keeps its new content and the second
\* is as it was.
C23_Witness ==
    /\ pc = "aborted"
    /\ fi = 2
    /\ io[Len(io)].file = files[2]
    /\ \E k \in 1 .. Len(io) : io[k] = Event("write", files[1], "")
    /\ disk[files[1]] = "className=\"ok\""
    /\ disk[files[1]] # run_disk[files[1]]
    /\ disk[files[2]] = run_disk[files[2]]
    /\ run_disk[files[2]] = "className=\"btn\""

\* The strings of a sequence that start with prefix.
Starting(lines, prefix) ==
    SelectSeq(lines, LAMBDA line : StartsWith(line, prefix))

RECURSIVE Flat(_)
Flat(seqs) == IF seqs = <<>> THEN <<>> ELSE Head(seqs) \o Flat(Tail(seqs))

\* C25: the deprecated-classes file holds exactly one rule block for every
\* key of the mapping that does not start with the comment marker and none
\* for a key that does; each block is under the old class name, lists the
\* declarations the audit has for the class and ends with the comment that
\* names the new class.
C25_OneBlockPerMappedClass ==
    rpc = "done" =>
        LET mapped == SelectSeq(mapping_file, LAMBDA pair : ~IsCommentKey(pair))
            body == SubSeq(deprecated_css, Len(Preamble) + 1,
                           Len(deprecated_css))
        IN  /\ Starting(body, ".")
                   = [k \in 1 .. Len(mapped) |-> "." \o mapped[k].old \o " {\n"]
            /\ Starting(body, "  /* @deprecated")
                   = [k \in 1 .. Len(mapped) |->
                         "  /* @deprecated Use ." \o mapped[k].new
                             \o " instead */\n"]
            /\ SelectSeq(body, LAMBDA line : StartsWith(line, "  ")
                                               /\ ~StartsWith(line, "  /*"))
                   = Flat([k \in 1 .. Len(mapped) |->
                             [j \in 1 .. Len(known_declarations(
                                                 audit_file, mapped[k].old)) |->
                                 "  " \o known_declarations(
                                             audit_file, mapped[k].old)[j]
                                      \o ";\n"]])
            /\ \A i \in 1 .. Len(body) :
                   body[i] = "}\n\n"
                       => StartsWith(body[i - 1], "  /* @deprecated")

====
